---- MODULE Spec2Model ----
(***************************************************************************)
(* A model of composure's composition core: the inset arithmetic of        *)
(* composer/balance.py, the renderer's geometry (composer/renderer.py),    *)
(* the caching pipeline (composer/pipeline.py), the persisted state        *)
(* (models/composition.py, models/preset.py) and the capture callbacks     *)
(* (capture/manager.py, capture/portal.py), the detectors                  *)
(* (composer/detector.py) and the window's handlers (window.py).           *)
(*                                                                         *)
(* The specifications that share the module:                               *)
(*   SpecInsets   one call of apply_insets on a bounded set of inputs      *)
(*   SpecBalance  one call of compute_balanced_insets, the detectors'      *)
(*                results being inputs                                     *)
(*   SpecRender   repeated CompositionRenderer.render calls on one image   *)
(*                and one state                                            *)
(*   Spec         the CompositionPipeline state machine                    *)
(*   SpecSerial   one from_dict call on a persisted state or preset        *)
(*   SpecStrip    one call of _strip_transparent_borders                   *)
(*   SpecCapture  one interactive capture request                          *)
(*   SpecDetect   one detector call on one edge of an image                *)
(*   SpecWindow   the handlers of ComposureWindow on the main loop and on  *)
(*                the capture thread                                       *)
(*   SpecPortal   several capture requests on one PortalCapture, and       *)
(*                SpecPortalFair, the same with every call result and      *)
(*                every response delivered                                 *)
(***************************************************************************)
EXTENDS Integers, Sequences, FiniteSets, TLC

VARIABLES
    ai_in,          \* apply_insets: the call's arguments, [w, h, insets]
    ai_out,         \* apply_insets: None, or Some(the call's outcome)
    bal_in,         \* compute_balanced_insets: the arguments and detector results
    bal_out,        \* compute_balanced_insets: None, or Some(BalancedInsets)
    r_image,        \* CompositionRenderer: the input image of the renders
    r_state,        \* CompositionRenderer: <<the state value the caller built,
                    \*   the state object as the renders so far have left it>>
    r_log,          \* CompositionRenderer: what each render so far produced
    input_image,    \* CompositionPipeline.input_image
    input_path,     \* CompositionPipeline.input_path
    state,          \* CompositionPipeline.state
    cached_result,  \* CompositionPipeline._cached_result
    cache_valid,    \* CompositionPipeline._cache_valid
    dirty,          \* history: an invalidating operation has returned since
                    \*   the last completed render
    last,           \* history: the last pipeline call and how it ended
    ser_in,         \* from_dict: the persisted dict and how it was made
    ser_out,        \* from_dict: None, or Some(the call's outcome)
    strip_in,       \* _strip_transparent_borders: the image given
    strip_out,      \* _strip_transparent_borders: None, or Some(the box kept)
    cap_env,        \* capture: what the tools, the bus, the user and the callback do
    cap,            \* capture: the request in progress and the PortalCapture object
    det_in,         \* detectors: the edge profile of the image given
    det_out,        \* detectors: None, or Some(the trim returned)
    win,            \* ComposureWindow: its fields, threads and main-loop queue
    por             \* PortalCapture shared by several requests, and its bus

ai_vars == <<ai_in, ai_out>>
bal_vars == <<bal_in, bal_out>>
r_vars == <<r_image, r_state, r_log>>
pipeline_vars == <<input_image, input_path, state, cached_result, cache_valid>>
ser_vars == <<ser_in, ser_out>>
strip_vars == <<strip_in, strip_out>>
cap_vars == <<cap_env, cap>>
det_vars == <<det_in, det_out>>
win_vars == <<win>>
por_vars == <<por>>
vars == <<ai_vars, bal_vars, r_vars, pipeline_vars, dirty, last, ser_vars,
          strip_vars, cap_vars, det_vars, win_vars, por_vars>>

\* An optional value is a sequence: <<>> for Python's None (or "not yet
\* there"), <<v>> for the value v.
None == <<>>
Some(v) == <<v>>

Max(a, b) == IF a >= b THEN a ELSE b
Min(a, b) == IF a <= b THEN a ELSE b
Abs(a) == IF a >= 0 THEN a ELSE 0 - a

(***************************************************************************)
(* Python's int(x * (n / d)) for integers x >= 0, d > 0 and any integer n, *)
(* as IEEE-754 binary64 computes it: n / d is rounded to 53 bits, the      *)
(* product is rounded again, int() truncates toward zero.  The result is   *)
(* the truncated exact quotient x*n/d except when that quotient is an      *)
(* integer k and both roundings fall below it: then it is k - 1 in         *)
(* magnitude (int(49 * (1 / 49)) = 0).  All arithmetic here is on small    *)
(* integers: R is the remainder of n * 2^P by d, P = 52 - floor(log2(n/d)),*)
(* found by repeated squaring.                                             *)
(***************************************************************************)
RECURSIVE Pow2(_)
Pow2(t) == IF t <= 0 THEN 1 ELSE 2 * Pow2(t - 1)

RECURSIVE FloorLog2(_)
FloorLog2(k) == IF k < 2 THEN 0 ELSE 1 + FloorLog2(k \div 2)

RECURSIVE FloorLog2Ratio(_, _)
FloorLog2Ratio(n, d) ==
    IF n >= d
    THEN (IF n >= 2 * d THEN 1 + FloorLog2Ratio(n, 2 * d) ELSE 0)
    ELSE FloorLog2Ratio(2 * n, d) - 1

\* 2^p mod d by repeated squaring
SquareMod(h, d) == (h * h) % d
RECURSIVE Pow2Mod(_, _)
Pow2Mod(p, d) ==
    IF p <= 0 THEN 1 % d
    ELSE (Pow2(p % 2) * SquareMod(Pow2Mod(p \div 2, d), d)) % d

\* (r * 2^p) mod d for 0 <= r < d
RemPow2(r, d, p) == IF p <= 0 THEN r ELSE (r * Pow2Mod(p, d)) % d

FloatMulTruncMag(x, n, d) ==
    IF x = 0 \/ n = 0 THEN 0
    ELSE IF (x * n) % d # 0 THEN (x * n) \div d
    ELSE LET k  == (x * n) \div d
             es == FloorLog2Ratio(n, d)
             R  == RemPow2(n % d, d, 52 - es)
             ek == FloorLog2(k)
             B  == Pow2(ek - es)
             A  == (IF k = Pow2(ek) THEN 4 ELSE 2) * x * R
             short == \/ A \div B > d
                      \/ (A \div B = d /\ A % B # 0)
         IN  IF R = 0 \/ 2 * R >= d THEN k
             ELSE IF short THEN k - 1 ELSE k

FloatMulTrunc(x, n, d) ==
    IF n >= 0 THEN FloatMulTruncMag(x, n, d)
    ELSE 0 - FloatMulTruncMag(x, 0 - n, d)

\* Python's int(x / (n / d)) for integers x >= 0, n > 0, d > 0: the exact
\* quotient x*d/n truncated, or one less when that quotient is an integer k,
\* n / d was rounded up and the rounded quotient falls below k.
FloatDivTrunc(x, n, d) ==
    IF x = 0 THEN 0
    ELSE IF (x * d) % n # 0 THEN (x * d) \div n
    ELSE LET k  == (x * d) \div n
             es == FloorLog2Ratio(n, d)
             R  == RemPow2(n % d, d, 52 - es)
             ek == FloorLog2(k)
             L  == (IF k = Pow2(ek) THEN 4 ELSE 2) * k * (d - R)
             short == IF es >= ek THEN L * Pow2(es - ek) > n
                      ELSE L > n * Pow2(ek - es)
         IN  IF R = 0 \/ 2 * R <= d THEN k
             ELSE IF short THEN k - 1 ELSE k

(***************************************************************************)
(* BalancedInsets and apply_insets (composer/balance.py)                   *)
(***************************************************************************)
BalancedInsets(l, r, t, b) == [left |-> l, right |-> r, top |-> t, bottom |-> b]

compute_manual_insets(inset_px) ==
    BalancedInsets(inset_px, inset_px, inset_px, inset_px)

\* Minimum size kept on an axis: max(50, dimension // 10).
MinKeep == 50
min_keep(dim) == Max(MinKeep, dim \div 10)

\* One axis of the scaling step: the pair of insets after
\*   if total > max_total: scale = max_total / total; a = int(a*scale); ...
\* zde marks Python's ZeroDivisionError (total = 0 > max_total).

\* A scaling that rounds up instead of truncating.
ScaleAxisRoundUp(a, b, max_total) ==
    LET total == a + b
    IN  IF total > max_total
        THEN IF total = 0 THEN [zde |-> TRUE, a |-> 0, b |-> 0]
             ELSE [zde |-> FALSE,
                   a |-> FloatMulTrunc(a, max_total, total) + 1,
                   b |-> FloatMulTrunc(b, max_total, total) + 1]
        ELSE [zde |-> FALSE, a |-> a, b |-> b]

ScaleAxis(a, b, max_total) ==
    LET total == a + b
    IN  IF total > max_total
        THEN IF total = 0 THEN [zde |-> TRUE, a |-> 0, b |-> 0]
             ELSE [zde |-> FALSE,
                   a |-> FloatMulTrunc(a, max_total, total),
                   b |-> FloatMulTrunc(b, max_total, total)]
        ELSE [zde |-> FALSE, a |-> a, b |-> b]

\* apply_insets(image, insets) for an image of size (w, h).  The outcome is
\* either the exception raised or the scaled insets, the crop box handed to
\* image.crop and the size of the card crop returns (right - left, lower -
\* upper: PIL pads a box that leaves the image).
apply_insets(w, h, insets) ==
    LET min_w == min_keep(w)
        min_h == min_keep(h)
        max_horizontal == w - min_w
        max_vertical == h - min_h
        hz == ScaleAxis(Max(0, insets.left), Max(0, insets.right), max_horizontal)
        vt == ScaleAxis(Max(0, insets.top), Max(0, insets.bottom), max_vertical)
    IN  IF hz.zde \/ vt.zde
        THEN [raised |-> TRUE,
              left |-> 0, right |-> 0, top |-> 0, bottom |-> 0,
              crop_box |-> <<0, 0, 0, 0>>, size |-> <<0, 0>>]
        ELSE LET crop_left == hz.a
                 crop_top == vt.a
                 crop_right == Max(crop_left + min_w, w - hz.b)
                 crop_bottom == Max(crop_top + min_h, h - vt.b)
             IN  [raised |-> FALSE,
                  left |-> hz.a, right |-> hz.b,
                  top |-> vt.a, bottom |-> vt.b,
                  crop_box |-> <<crop_left, crop_top, crop_right, crop_bottom>>,
                  size |-> <<crop_right - crop_left, crop_bottom - crop_top>>]

(***************************************************************************)
(* SpecInsets: one apply_insets call.  One axis ranges over every          *)
(* dimension up to MaxDim and every inset in -1 .. MaxInset (and a few     *)
(* large ones); the other axis takes a few sample values.                  *)
(***************************************************************************)
MaxDim == 60
MaxInset == 8

AxisDims == (1 .. MaxDim) \cup {200, 510}
AxisInsets == (-1 .. MaxInset) \cup {49, 150, 600}
\* <<dimension, first inset, second inset>> of the sampled axis
AxisSamples == {<<40, 0, 0>>, <<200, 150, 150>>, <<300, 7, 0>>}

\* The call with <<d, a, b>> on the full axis and the sample s on the other.
InsetCall(d, a, b, s, horizontal) ==
    IF horizontal
    THEN [w |-> d, h |-> s[1], insets |-> BalancedInsets(a, b, s[2], s[3])]
    ELSE [w |-> s[1], h |-> d, insets |-> BalancedInsets(s[2], s[3], a, b)]

BalanceIdle == /\ bal_in = None
               /\ bal_out = None

SerialIdle == /\ ser_in = None
              /\ ser_out = None

StripIdle == /\ strip_in = None
             /\ strip_out = None

CaptureIdle == /\ cap_env = None
               /\ cap = None

DetectIdle == /\ det_in = None
              /\ det_out = None

WindowIdle == win = None

PortalIdle == por = None

RenderIdle == /\ r_image = None
              /\ r_state = None
              /\ r_log = <<>>

PipelineIdle == /\ input_image = None
                /\ input_path = None
                /\ state = None
                /\ cached_result = None
                /\ cache_valid = FALSE
                /\ dirty = FALSE
                /\ last = None

InitInsets ==
    /\ \E d \in AxisDims, a \in AxisInsets, b \in AxisInsets,
          s \in AxisSamples, horizontal \in BOOLEAN :
            ai_in = Some(InsetCall(d, a, b, s, horizontal))
    /\ ai_out = None
    /\ BalanceIdle
    /\ RenderIdle
    /\ PipelineIdle
    /\ SerialIdle
    /\ StripIdle
    /\ CaptureIdle
    /\ DetectIdle
    /\ WindowIdle
    /\ PortalIdle

ApplyInsets ==
    /\ ai_in # None
    /\ ai_out = None
    /\ ai_out' = Some(apply_insets(ai_in[1].w, ai_in[1].h, ai_in[1].insets))
    /\ UNCHANGED <<ai_in, bal_vars, r_vars, pipeline_vars, dirty, last,
                 ser_vars, strip_vars, cap_vars,
                   det_vars, win_vars, por_vars>>

NextInsets == ApplyInsets

SpecInsets == InitInsets /\ [][NextInsets]_vars

(***************************************************************************)
(* Claims about apply_insets (checked under SpecInsets)                    *)
(***************************************************************************)
ai_done == ai_out # None
ai_w == ai_in[1].w
ai_h == ai_in[1].h
ai_req == ai_in[1].insets
ai_res == ai_out[1]

\* C1: for every image (w, h >= 1) and every BalancedInsets, apply_insets
\* returns a card at least max(50, w // 10) wide and max(50, h // 10) high.
C1_CardAtLeastMinimum ==
    ai_done =>
        /\ ~ai_res.raised
        /\ ai_res.size[1] >= min_keep(ai_w)
        /\ ai_res.size[2] >= min_keep(ai_h)

\* C2: for every image size and every requested insets, apply_insets
\* completes without raising and its crop box lies inside the image:
\* 0 <= crop_left < crop_right <= w and 0 <= crop_top < crop_bottom <= h.
C2_CropBoxInsideImage ==
    ai_done =>
        /\ ~ai_res.raised
        /\ 0 <= ai_res.crop_box[1]
        /\ ai_res.crop_box[1] < ai_res.crop_box[3]
        /\ ai_res.crop_box[3] <= ai_w
        /\ 0 <= ai_res.crop_box[2]
        /\ ai_res.crop_box[2] < ai_res.crop_box[4]
        /\ ai_res.crop_box[4] <= ai_h

\* x scaled by max_total / total and truncated, up to one unit of truncation.
KeptUpToTruncation(x, scaled, max_total, total) ==
    Abs(scaled * total - x * max_total) <= total

\* One axis of C3: req_a, req_b are the requested insets (clamped to >= 0 as
\* the code does before comparing), new_a, new_b the insets cropped by.
AxisScaled(req_a, req_b, dim, new_a, new_b) ==
    LET a == Max(0, req_a)
        b == Max(0, req_b)
        max_total == dim - min_keep(dim)
    IN  IF a + b > max_total
        THEN /\ a + b > 0
             /\ ~ai_res.raised =>
                  /\ new_a + new_b <= max_total
                  /\ KeptUpToTruncation(a, new_a, max_total, a + b)
                  /\ KeptUpToTruncation(b, new_b, max_total, a + b)
        ELSE ~ai_res.raised => (new_a = a /\ new_b = b)

\* C3 as stated: on either axis, insets whose sum exceeds dim - min are
\* scaled by (dim - min) / sum and truncated so that the sum fits and the
\* proportion is kept; a 200 wide image with left = right = 150 gives 90, 90;
\* insets that fit are unchanged.
C3_ScaledToFit ==
    ai_done =>
        /\ AxisScaled(ai_req.left, ai_req.right, ai_w, ai_res.left, ai_res.right)
        /\ AxisScaled(ai_req.top, ai_req.bottom, ai_h, ai_res.top, ai_res.bottom)
        /\ (ai_w = 200 /\ ai_req.left = 150 /\ ai_req.right = 150 /\ ~ai_res.raised)
              => (ai_res.left = 90 /\ ai_res.right = 90)

\* One axis of C3 as amended.  From 50 px on it is AxisScaled; below 50 px
\* dim - min is negative: the call raises when the clamped sum is 0, and
\* otherwise crops with insets that are not positive.
AxisScaledAmended(req_a, req_b, dim, new_a, new_b) ==
    IF dim >= MinKeep
    THEN AxisScaled(req_a, req_b, dim, new_a, new_b)
    ELSE /\ (Max(0, req_a) + Max(0, req_b) = 0) => ai_res.raised
         /\ ~ai_res.raised => (new_a <= 0 /\ new_b <= 0)

\* C3 amended: on an axis of at least 50 px the scaling makes the sum fit
\* and keeps the proportion up to truncation, and insets that fit are
\* unchanged; 200 wide with left = right = 150 gives 75 and 75 (the bound is
\* 200 - 50 = 150); a call raises only for an axis below 50 px whose
\* clamped insets sum to 0, and on such an axis the insets used are <= 0.
C3_ScaledToFitFrom50 ==
    ai_done =>
        /\ AxisScaledAmended(ai_req.left, ai_req.right, ai_w,
                             ai_res.left, ai_res.right)
        /\ AxisScaledAmended(ai_req.top, ai_req.bottom, ai_h,
                             ai_res.top, ai_res.bottom)
        /\ ai_res.raised =>
              \/ (ai_w < MinKeep /\ Max(0, ai_req.left) + Max(0, ai_req.right) = 0)
              \/ (ai_h < MinKeep /\ Max(0, ai_req.top) + Max(0, ai_req.bottom) = 0)
        /\ (ai_w = 200 /\ ai_req.left = 150 /\ ai_req.right = 150 /\ ~ai_res.raised)
              => (ai_res.left = 75 /\ ai_res.right = 75)

\* C3 witness: the 200 wide image with left = right = 150 has been cropped
\* with both insets scaled down to 75.
C3_Witness ==
    /\ ai_done
    /\ ~ai_res.raised
    /\ ai_w = 200 /\ ai_req.left = 150 /\ ai_req.right = 150
    /\ ai_res.left = 75 /\ ai_res.right = 75
    /\ ai_res.size[1] = 50

(***************************************************************************)
(* The detectors' results (composer/detector.py), as far as                *)
(* compute_balanced_insets reads them.                                     *)
(***************************************************************************)
EdgeTrims(l, r, t, b) == [left |-> l, right |-> r, top |-> t, bottom |-> b]
ContentBounds(l, t, r, b) == [left |-> l, top |-> t, right |-> r, bottom |-> b]

\* detect_edge_background on one axis of length dim: the band is
\* max(2, int(dim * 0.04)), the cap int(dim * 0.4); the sweep visits the
\* offsets range(0, cap, band) and the trim is min(cap, k * band) for the
\* number k of bands it accepted.
edge_band(dim) == Max(2, FloatMulTrunc(dim, 4, 100))
edge_cap(dim) == FloatMulTrunc(dim, 4, 10)
edge_sweeps(dim) == (edge_cap(dim) + edge_band(dim) - 1) \div edge_band(dim)
detect_edge_background_axis(dim) ==
    {Min(edge_cap(dim), k * edge_band(dim)) : k \in 0 .. edge_sweeps(dim)}

\* detect_window_transparency on one axis: <<near, far>>, the distance of
\* the first fully opaque row or column from each edge, both 0 when there
\* is none; the first one from the near edge is not behind the first one
\* from the far edge, so near + far <= dim - 1.  Sampled: nothing to trim,
\* one pixel on each side, and the whole axis but one line on either side.
detect_window_transparency_axis(dim) ==
    {p \in {<<0, 0>>, <<1, 1>>, <<0, dim - 1>>, <<dim - 1, 0>>} :
        p[1] + p[2] <= dim - 1}

\* detect_content_saliency on one axis: the extreme sampled coordinates
\* <<min, max>> with max > min, both inside the image.
detect_content_saliency_axis(dim) ==
    {<<a, b>> : a \in 0 .. dim - 1, b \in 0 .. dim - 1} \cap
    {p \in (0 .. dim - 1) \X (0 .. dim - 1) : p[2] > p[1]}

\* min_content_area: a box is reported only if at least 100 sampled pixels
\* lie above the edge threshold, all of them inside the box.
MinContentArea == 100
saliency_reportable(xs, ys) ==
    (xs[2] - xs[1] + 1) * (ys[2] - ys[1] + 1) >= MinContentArea

(***************************************************************************)
(* compute_balanced_insets (composer/balance.py).  The argument record:    *)
(*   w, h                the image size                                    *)
(*   rgba                image.mode == 'RGBA'                              *)
(*   bg, tr              the EdgeTrims of detect_edge_background and       *)
(*                       detect_window_transparency                        *)
(*   cb                  None or Some(ContentBounds) of                    *)
(*                       detect_content_saliency                           *)
(*   is_window_capture, margin                                             *)
(*   strength, upward_bias   <<numerator, denominator>> of the float       *)
(***************************************************************************)
\* Steps 1 and 1b
edge_trims_of(in) ==
    IF in.is_window_capture /\ in.rgba
    THEN EdgeTrims(Max(in.bg.left, in.tr.left), Max(in.bg.right, in.tr.right),
                   Max(in.bg.top, in.tr.top), Max(in.bg.bottom, in.tr.bottom))
    ELSE in.bg

\* Step 2
content_bounds_of(in) ==
    LET e == edge_trims_of(in)
    IN  IF in.cb = None
        THEN ContentBounds(e.left, e.top, in.w - e.right, in.h - e.bottom)
        ELSE in.cb[1]

\* Step 3: the safe trims
safe_trims_of(in) ==
    LET c == content_bounds_of(in)
    IN  EdgeTrims(Max(0, c.left - in.margin),
                  Max(0, in.w - c.right - in.margin),
                  Max(0, c.top - in.margin),
                  Max(0, in.h - c.bottom - in.margin))

\* Step 4 on one axis.  The offset of the content center from the target is
\* num / den (den > 0); near/far are the trims of the left/top and of the
\* right/bottom edge.  extra = min(int(offset * 0.5), safe - trim), added
\* when positive, to the far edge if offset > 0 and to the near edge if not.
\* A centering that forgets the safe bound.
CenterAxisUnbounded(near, far, safe_near, safe_far, num, den) ==
    IF num > 0
    THEN <<near, far + Max(0, num \div (2 * den))>>
    ELSE <<near + Max(0, (0 - num) \div (2 * den)), far>>

CenterAxis(near, far, safe_near, safe_far, num, den) ==
    IF num > 0
    THEN <<near, far + Max(0, Min(num \div (2 * den), safe_far - far))>>
    ELSE <<near + Max(0, Min((0 - num) \div (2 * den), safe_near - near)), far>>

\* Steps 3 and 4: the trims before strength is applied.
centered_trims_of(in) ==
    LET e == edge_trims_of(in)
        c == content_bounds_of(in)
        s == safe_trims_of(in)
        \* offset_x = (left + right) / 2 - w / 2
        hz == CenterAxis(Min(e.left, s.left), Min(e.right, s.right),
                         s.left, s.right,
                         c.left + c.right - in.w, 2)
        \* offset_y = (top + bottom) / 2 - h / 2 * (1 - upward_bias)
        bn == in.upward_bias[1]
        bd == in.upward_bias[2]
        vt == CenterAxis(Min(e.top, s.top), Min(e.bottom, s.bottom),
                         s.top, s.bottom,
                         (c.top + c.bottom) * bd - in.h * (bd - bn), 2 * bd)
    IN  EdgeTrims(hz[1], hz[2], vt[1], vt[2])

\* Step 5: int(trim * strength)
\* A strength step that takes a strength of 0 for "not given" and uses 1.0
\* (strength = strength or 1.0).
scale_by_strength_or_default(in, t) ==
    IF in.strength[1] = 0
    THEN BalancedInsets(t.left, t.right, t.top, t.bottom)
    ELSE BalancedInsets(FloatMulTrunc(t.left, in.strength[1], in.strength[2]),
                        FloatMulTrunc(t.right, in.strength[1], in.strength[2]),
                        FloatMulTrunc(t.top, in.strength[1], in.strength[2]),
                        FloatMulTrunc(t.bottom, in.strength[1], in.strength[2]))

scale_by_strength(in, t) ==
    BalancedInsets(FloatMulTrunc(t.left, in.strength[1], in.strength[2]),
                   FloatMulTrunc(t.right, in.strength[1], in.strength[2]),
                   FloatMulTrunc(t.top, in.strength[1], in.strength[2]),
                   FloatMulTrunc(t.bottom, in.strength[1], in.strength[2]))

compute_balanced_insets(in) == scale_by_strength(in, centered_trims_of(in))

(***************************************************************************)
(* SpecBalance: one compute_balanced_insets call.  One axis ranges over    *)
(* every length up to MaxBalDim with every detector result the detectors   *)
(* can return on it; the other axis takes sample values.                   *)
(***************************************************************************)
MaxBalDim == 10

BalStrengths == {<<0, 1>>, <<1, 2>>, <<65, 100>>, <<1, 1>>}
BalMargins == {0, 2, 16}
\* <<is_window_capture, image is RGBA>>
BalModes == {<<FALSE, TRUE>>, <<TRUE, FALSE>>, <<TRUE, TRUE>>}

\* The sampled axis: its length, the detector results on it and the
\* upward_bias of the call.
BalSamples ==
    {[dim |-> 40, bg |-> <<4, 16>>, tr |-> <<0, 3>>, cb |-> <<5, 30>>,
      upward_bias |-> <<1, 20>>],
     [dim |-> 120, bg |-> <<0, 4>>, tr |-> <<10, 0>>, cb |-> <<70, 110>>,
      upward_bias |-> <<0, 1>>]}

\* The results the detectors can return on an axis of length dim:
\* bg and tr are <<near, far>> trims, cb is None or Some(<<min, max>>).
BalAxisResults(dim, window, ys) ==
    {[bg |-> <<bn, bf>>, tr |-> t, cb |-> c] :
        bn \in detect_edge_background_axis(dim),
        bf \in detect_edge_background_axis(dim),
        t \in (IF window THEN detect_window_transparency_axis(dim) ELSE {<<0, 0>>}),
        c \in {None} \cup
              {Some(xs) : xs \in {p \in detect_content_saliency_axis(dim) :
                                     saliency_reportable(p, ys)}}}

\* The call with the detector results r on the full axis (of length d) and
\* the sample s on the other; the full axis is the horizontal one or not.
BalCall(d, m, s, r, g, st, horizontal) ==
    LET window == m[1] /\ m[2]
        full == [dim |-> d, bg |-> r.bg, tr |-> r.tr,
                 cb |-> IF r.cb = None THEN <<0, 0>> ELSE r.cb[1]]
        x == IF horizontal THEN full ELSE [dim |-> s.dim, bg |-> s.bg, tr |-> s.tr, cb |-> s.cb]
        y == IF horizontal THEN [dim |-> s.dim, bg |-> s.bg, tr |-> s.tr, cb |-> s.cb] ELSE full
    IN  [w |-> x.dim, h |-> y.dim, rgba |-> m[2], is_window_capture |-> m[1],
         bg |-> EdgeTrims(x.bg[1], x.bg[2], y.bg[1], y.bg[2]),
         tr |-> IF window THEN EdgeTrims(x.tr[1], x.tr[2], y.tr[1], y.tr[2])
                ELSE EdgeTrims(0, 0, 0, 0),
         cb |-> IF r.cb = None THEN None
                ELSE Some(ContentBounds(x.cb[1], y.cb[1], x.cb[2], y.cb[2])),
         margin |-> g, strength |-> st, upward_bias |-> s.upward_bias]

InsetsIdle == /\ ai_in = None
              /\ ai_out = None

InitBalance ==
    /\ \E d \in 1 .. MaxBalDim, m \in BalModes, s \in BalSamples :
         \E r \in BalAxisResults(d, m[1] /\ m[2], s.cb),
            g \in BalMargins, st \in BalStrengths, horizontal \in BOOLEAN :
            bal_in = Some(BalCall(d, m, s, r, g, st, horizontal))
    /\ bal_out = None
    /\ InsetsIdle
    /\ RenderIdle
    /\ PipelineIdle
    /\ SerialIdle
    /\ StripIdle
    /\ CaptureIdle
    /\ DetectIdle
    /\ WindowIdle
    /\ PortalIdle

ComputeBalancedInsets ==
    /\ bal_in # None
    /\ bal_out = None
    /\ bal_out' = Some(compute_balanced_insets(bal_in[1]))
    /\ UNCHANGED <<bal_in, ai_vars, r_vars, pipeline_vars, dirty, last,
                 ser_vars, strip_vars, cap_vars,
                   det_vars, win_vars, por_vars>>

NextBalance == ComputeBalancedInsets

SpecBalance == InitBalance /\ [][NextBalance]_vars

(***************************************************************************)
(* Claims about compute_balanced_insets (checked under SpecBalance)        *)
(***************************************************************************)
bal_done == bal_out # None
bal_args == bal_in[1]
bal_res == bal_out[1]

\* C4: whatever the detectors return and whatever the strength in [0, 1],
\* each returned inset is <= the safe trim of its edge (content bound minus
\* margin, not below 0), also after the step-4 centering adjustment.
C4_InsetsWithinSafeTrims ==
    bal_done =>
        LET safe == safe_trims_of(bal_args)
        IN  /\ bal_res.left <= safe.left
            /\ bal_res.right <= safe.right
            /\ bal_res.top <= safe.top
            /\ bal_res.bottom <= safe.bottom

\* C4 witness: at full strength, with saliency bounds found, the centering
\* step has raised the bottom trim above the step-3 trim and stopped at the
\* safe trim.
C4_Witness ==
    /\ bal_done
    /\ bal_args.cb # None
    /\ bal_args.strength = <<1, 1>>
    /\ bal_res.bottom = safe_trims_of(bal_args).bottom
    /\ bal_res.bottom > Min(edge_trims_of(bal_args).bottom,
                            safe_trims_of(bal_args).bottom)
    /\ bal_res.left > 0

proper_bounds(c) == c.right > c.left /\ c.bottom > c.top

\* C22: the content bounds compute_balanced_insets works with have
\* right > left and bottom > top, whether they come from
\* detect_content_saliency or from the fallback built from the edge trims,
\* also when is_window_capture is set and the edge trims are the per-edge
\* maximum of the two detectors.
C22_ContentBoundsProper ==
    bal_done => proper_bounds(content_bounds_of(bal_args))

\* the bounds reported by detect_content_saliency, and the fallback from
\* the trims of detect_edge_background alone
ProperBoundsWithoutTransparency ==
    bal_done /\ (bal_args.cb # None \/ ~(bal_args.is_window_capture /\ bal_args.rgba))
        => proper_bounds(content_bounds_of(bal_args))

\* Step 3 alone: the edge trims clamped to the safe trims
clamped_trims_of(in) ==
    EdgeTrims(Min(edge_trims_of(in).left, safe_trims_of(in).left),
              Min(edge_trims_of(in).right, safe_trims_of(in).right),
              Min(edge_trims_of(in).top, safe_trims_of(in).top),
              Min(edge_trims_of(in).bottom, safe_trims_of(in).bottom))

\* twice the distance, on an axis of length dim cropped by near and far,
\* between the center of the content lo .. hi and the center of the crop:
\* |(lo + hi)/2 - near - (dim - near - far)/2|
off_center2(dim, lo, hi, near, far) == Abs(lo + hi - dim - near + far)

\* C25: at strength 1, on each axis, the content center is no further
\* from the center of the image cropped by the returned insets than from
\* the center of the image cropped by the step-3 trims alone.
C25_CenteringRecenters ==
    (bal_done /\ bal_args.strength = <<1, 1>>) =>
        LET c == content_bounds_of(bal_args)
            t == clamped_trims_of(bal_args)
        IN  /\ off_center2(bal_args.w, c.left, c.right, bal_res.left, bal_res.right)
                 <= off_center2(bal_args.w, c.left, c.right, t.left, t.right)
            /\ off_center2(bal_args.h, c.top, c.bottom, bal_res.top, bal_res.bottom)
                 <= off_center2(bal_args.h, c.top, c.bottom, t.top, t.bottom)

\* the horizontal axis, with a saliency box and without the window
\* capture merge
RecentersSaliencyBoxHorizontally ==
    (bal_done /\ bal_args.strength = <<1, 1>> /\ bal_args.cb # None
        /\ ~bal_args.is_window_capture) =>
        LET c == content_bounds_of(bal_args)
            t == clamped_trims_of(bal_args)
        IN  off_center2(bal_args.w, c.left, c.right, bal_res.left, bal_res.right)
                 <= off_center2(bal_args.w, c.left, c.right, t.left, t.right)

\* step 4 never brings the content nearer to the center of the crop when
\* the content lies on the side it trims
CenteringMovesAway ==
    (bal_done /\ bal_args.strength = <<1, 1>> /\ bal_args.cb # None) =>
        LET c == content_bounds_of(bal_args)
            t == clamped_trims_of(bal_args)
        IN  (c.left + c.right - bal_args.w > 0 /\ t.left <= t.right) =>
               off_center2(bal_args.w, c.left, c.right, bal_res.left, bal_res.right)
                 >= off_center2(bal_args.w, c.left, c.right, t.left, t.right)

\* C5: with strength = 0 the four insets are 0, for every image, every
\* is_window_capture, margin and upward_bias.
C5_ZeroStrengthZeroInsets ==
    (bal_done /\ bal_args.strength[1] = 0) =>
        bal_res = BalancedInsets(0, 0, 0, 0)

\* C5 witness: a window capture whose trims before the strength step are
\* not all zero has come out with all-zero insets at strength 0.
C5_Witness ==
    /\ bal_done
    /\ bal_args.strength[1] = 0
    /\ bal_args.is_window_capture
    /\ centered_trims_of(bal_args).bottom > 0
    /\ centered_trims_of(bal_args).left > 0
    /\ bal_res = BalancedInsets(0, 0, 0, 0)

(***************************************************************************)
(* CompositionState (models/composition.py).  Floats are <<numerator,      *)
(* denominator>> pairs; a shadow layer's opacity is in hundredths.         *)
(***************************************************************************)
ShadowLayer(blur, spread, offset_y, opacity) ==
    [blur |-> blur, spread |-> spread, offset_y |-> offset_y, opacity |-> opacity]
ShadowConfig(strength, layers) == [strength |-> strength, layers |-> layers]
InsetConfig(mode, strength, manual_px, balanced_insets_px) ==
    [mode |-> mode, strength |-> strength, manual_px |-> manual_px,
     balanced_insets_px |-> balanced_insets_px]
BackgroundConfig(type, preset_id, image_path) ==
    [type |-> type, preset_id |-> preset_id, image_path |-> image_path]
OutputConfig(mode, ratio, size_px, platform) ==
    [mode |-> mode, ratio |-> ratio, size_px |-> size_px, platform |-> platform]
CompositionState(padding_px, inset, radius_px, shadow, background, output) ==
    [padding_px |-> padding_px, inset |-> inset, radius_px |-> radius_px,
     shadow |-> shadow, background |-> background, output |-> output]

\* BalancedInsets.as_dict
as_dict(insets) ==
    [l |-> insets.left, r |-> insets.right, t |-> insets.top, b |-> insets.bottom]

DefaultShadowLayers ==
    <<ShadowLayer(28, -8, 18, 18), ShadowLayer(10, -4, 6, 12)>>
DefaultShadow == ShadowConfig(<<55, 100>>, DefaultShadowLayers)
DefaultInset == InsetConfig("balance", <<65, 100>>, 24, as_dict(BalancedInsets(0, 0, 0, 0)))
DefaultBackground == BackgroundConfig("preset", "slate", None)
DefaultOutput == OutputConfig("autoRatio", <<16, 9>>, <<1920, 1080>>, None)
DefaultPadding == 120
DefaultRadius == 18
DefaultState ==
    CompositionState(DefaultPadding, DefaultInset, DefaultRadius, DefaultShadow,
                     DefaultBackground, DefaultOutput)

PLATFORM_PRESETS ==
    [twitter |-> <<1200, 675>>, facebook |-> <<1200, 630>>,
     instagram |-> <<1080, 1080>>, linkedin |-> <<1200, 627>>,
     youtube |-> <<1280, 720>>, pinterest |-> <<1000, 1500>>,
     reddit |-> <<1200, 628>>, snapchat |-> <<1080, 1920>>]

(***************************************************************************)
(* CompositionRenderer (composer/renderer.py).  An input image is          *)
(* [id, w, h, bg, cb]: what it shows, its size, and what                   *)
(* detect_edge_background and detect_content_saliency return on it.        *)
(***************************************************************************)
\* compute_balanced_insets as render calls it: strength from the state, the
\* defaults is_window_capture=False, margin=16, upward_bias=0.05.
DefaultMargin == 16
DefaultUpwardBias == <<1, 20>>
balance_call(image, strength) ==
    [w |-> image.w, h |-> image.h, rgba |-> TRUE, is_window_capture |-> FALSE,
     bg |-> image.bg, tr |-> EdgeTrims(0, 0, 0, 0), cb |-> image.cb,
     margin |-> DefaultMargin, strength |-> strength,
     upward_bias |-> DefaultUpwardBias]

\* A step 1 that, once insets are cached in the state, takes those and
\* applies the strength to them again instead of running the detectors.
render_insets_reusing_cache(image, st) ==
    IF st.inset.mode = "balance"
    THEN IF st.inset.balanced_insets_px # as_dict(BalancedInsets(0, 0, 0, 0))
         THEN LET c == st.inset.balanced_insets_px
              IN  scale_by_strength([strength |-> st.inset.strength],
                                    EdgeTrims(c.l, c.r, c.t, c.b))
         ELSE compute_balanced_insets(balance_call(image, st.inset.strength))
    ELSE compute_manual_insets(st.inset.manual_px)

\* Step 1: the insets render crops with.
render_insets(image, st) ==
    IF st.inset.mode = "balance"
    THEN compute_balanced_insets(balance_call(image, st.inset.strength))
    ELSE compute_manual_insets(st.inset.manual_px)

\* A step 1 that stores the insets in manual mode as well.
state_after_render_storing_always(image, st) ==
    [st EXCEPT !.inset.balanced_insets_px = as_dict(render_insets(image, st))]

\* Step 1 stores the computed insets back into the state (balance mode only):
\* the state object as render leaves it.
state_after_render(image, st) ==
    IF st.inset.mode = "balance"
    THEN [st EXCEPT !.inset.balanced_insets_px = as_dict(render_insets(image, st))]
    ELSE st

\* compute_output_size
compute_output_size(image, st) ==
    LET o == st.output
    IN  CASE o.mode = "fixedSize" -> o.size_px
          [] o.mode = "platform" ->
                IF o.platform # None /\ o.platform[1] \in DOMAIN PLATFORM_PRESETS
                THEN PLATFORM_PRESETS[o.platform[1]]
                ELSE o.size_px
          [] o.mode = "fixedRatio" ->
                \* current_ratio > target_ratio: the input is wider
                IF image.w * o.ratio[2] > o.ratio[1] * image.h
                THEN LET out_w == image.w + st.padding_px * 2
                     IN  <<out_w, FloatDivTrunc(out_w, o.ratio[1], o.ratio[2])>>
                ELSE LET out_h == image.h + st.padding_px * 2
                     IN  <<FloatMulTrunc(out_h, o.ratio[1], o.ratio[2]), out_h>>
          [] OTHER -> <<image.w + st.padding_px * 2, image.h + st.padding_px * 2>>

\* Step 3: the margin the shadow needs.  Twice the largest base extent
\* blur / 2 + max(0, -spread) and twice the largest bottom extent
\* base + offset_y over the layers, neither below 0.
RECURSIVE shadow_extents2(_, _)
shadow_extents2(layers, i) ==
    IF i = 0 THEN <<0, 0>>
    ELSE LET rest == shadow_extents2(layers, i - 1)
             base2 == layers[i].blur + 2 * Max(0, 0 - layers[i].spread)
             bottom2 == base2 + 2 * layers[i].offset_y
         IN  <<Max(rest[1], base2), Max(rest[2], bottom2)>>

ShadowPad == 8
\* int(extent * strength) + 8 for an extent given doubled
shadow_pad(extent2, strength) ==
    FloatMulTrunc(extent2, strength[1], strength[2]) \div 2 + ShadowPad

shadow_margin(shadow) ==
    IF shadow.strength[1] > 0
    THEN LET e == shadow_extents2(shadow.layers, Len(shadow.layers))
         IN  Max(shadow_pad(e[1], shadow.strength), shadow_pad(e[2], shadow.strength))
    ELSE 0

\* The ids of BACKGROUND_PRESETS (models/composition.py)
BACKGROUND_PRESETS ==
    {"black", "white", "slate", "zinc", "stone", "navy", "forest", "wine",
     "mist", "dusk", "ocean", "moss", "plum", "midnight", "charcoal", "smoke",
     "sunset", "aurora", "berry", "lime", "sky", "fire", "neon", "tropical"}

\* render_gradient_background: an unknown preset id paints 'sky'.
render_gradient_background(preset_id) ==
    <<"preset", IF preset_id \in BACKGROUND_PRESETS THEN preset_id ELSE "sky">>

\* Step 5: what is painted behind the card.
render_background(bg) ==
    IF bg.type = "preset" THEN render_gradient_background(bg.preset_id)
    ELSE IF bg.type = "image" /\ bg.image_path # None
         THEN <<"image", bg.image_path[1]>>
         ELSE render_gradient_background("sky")

\* A render_shadow without the strength test
render_shadow_at_any_strength(shadow) == Some(shadow)

\* The shadow render_shadow paints: none at strength <= 0.
render_shadow(shadow) ==
    IF shadow.strength[1] <= 0 THEN None ELSE Some(shadow)

\* create_rounded_rect_path on a width x height rectangle in whole pixels:
\* twice the radius of the path, rounded down (min(width, height) when the
\* radius given exceeds min(width, height) / 2).
create_rounded_rect_path(width, height, radius) ==
    IF 2 * radius > Min(width, height) THEN Min(width, height) ELSE 2 * radius

\* render_shadow's lengths are multiples of 1 / shadow_unit of a pixel:
\* scale_factor = 0.8 + strength * 0.6 = (4*den + 3*num) / (5*den).
shadow_unit(strength) == 5 * strength[2]
\* current_spread = layer.spread * scale_factor, in units
current_spread(layer, strength) ==
    layer.spread * (4 * strength[2] + 3 * strength[1])

\* opacity = layer.opacity * strength <= 0.01
layer_skipped(layer, strength) == layer.opacity * strength[1] <= strength[2]

\* The rounded rectangle one layer's mask gets, in units, around a card
\* drawn width x height (whole pixels): the card's rectangle with the
\* radius as given when the spread is 0, else the rectangle grown by the
\* spread with radius max(0, radius + current_spread).
layer_shape(layer, strength, width, height, radius) ==
    IF layer.spread = 0
    THEN [unit |-> shadow_unit(strength),
          w |-> width * shadow_unit(strength),
          h |-> height * shadow_unit(strength),
          radius |-> radius * shadow_unit(strength)]
    ELSE [unit |-> shadow_unit(strength),
          w |-> width * shadow_unit(strength) + 2 * current_spread(layer, strength),
          h |-> height * shadow_unit(strength) + 2 * current_spread(layer, strength),
          radius |-> Max(0, radius * shadow_unit(strength)
                                + current_spread(layer, strength))]

\* spread_w <= 0 or spread_h <= 0
shape_empty(shape) == shape.w <= 0 \/ shape.h <= 0

\* The loop of render_shadow from layer i on: the shapes that are blurred
\* and painted, in order.
RECURSIVE shadow_layers(_, _, _, _, _)
shadow_layers(shadow, width, height, radius, i) ==
    IF i > Len(shadow.layers) THEN <<>>
    ELSE IF layer_skipped(shadow.layers[i], shadow.strength)
            \/ shape_empty(layer_shape(shadow.layers[i], shadow.strength,
                                       width, height, radius))
         THEN shadow_layers(shadow, width, height, radius, i + 1)
         ELSE <<layer_shape(shadow.layers[i], shadow.strength,
                            width, height, radius)>>
                \o shadow_layers(shadow, width, height, radius, i + 1)

\* Step 7: what render_shadow composites under the card
painted_shadow(shadow, width, height, radius) ==
    IF render_shadow(shadow) = None THEN <<>>
    ELSE shadow_layers(shadow, width, height, radius, 1)

\* Step 6: int(draw_w), int(draw_h), the size render_card resizes the card
\* to, for scale = min(available_w / card_w, available_h / card_h).
contain(size, available) ==
    IF available[1] * size[2] <= available[2] * size[1]
    THEN <<FloatMulTrunc(size[1], available[1], size[1]),
           FloatMulTrunc(size[2], available[1], size[1])>>
    ELSE <<FloatMulTrunc(size[1], available[2], size[2]),
           FloatMulTrunc(size[2], available[2], size[2])>>

\* Steps 7 and 8: a draw size that is not positive makes the mask or the
\* resize raise; otherwise the canvas is returned, described by everything
\* that decides its pixels.
draw_card(image, st, card, effective_padding, out, draw) ==
    IF draw[1] <= 0 \/ draw[2] <= 0
    THEN [raised |-> TRUE, canvas |-> None]
    ELSE [raised |-> FALSE,
          canvas |-> Some([image |-> image.id,
                          crop_box |-> card.crop_box,
                          size |-> out,
                          effective_padding |-> effective_padding,
                          draw |-> draw,
                          radius |-> st.radius_px,
                          clip_radius2 |->
                              create_rounded_rect_path(draw[1], draw[2], st.radius_px),
                          shadow |-> render_shadow(st.shadow),
                          painted |->
                              painted_shadow(st.shadow, draw[1], draw[2], st.radius_px),
                          background |-> render_background(st.background)])]

\* Steps 4 to 6 on a canvas of size out
place_card(image, st, card, effective_padding, out) ==
    draw_card(image, st, card, effective_padding, out,
              contain(card.size, <<out[1] - effective_padding * 2,
                                   out[2] - effective_padding * 2>>))

\* Steps 2 and 3 for the card apply_insets returned: the output size is
\* compute_output_size's unless the shadow margin exceeds the padding.
compose(image, st, card, effective_padding) ==
    IF card.raised
    THEN [raised |-> TRUE, canvas |-> None]
    ELSE place_card(image, st, card, effective_padding,
                    IF effective_padding > st.padding_px
                    THEN <<card.size[1] + effective_padding * 2,
                           card.size[2] + effective_padding * 2>>
                    ELSE compute_output_size(image, st))

\* CompositionRenderer(image, st).render(): the exception it ends with, or
\* the canvas it returns.
render(image, st) ==
    compose(image, st,
            apply_insets(image.w, image.h, render_insets(image, st)),
            Max(st.padding_px, shadow_margin(st.shadow)))

(***************************************************************************)
(* Images.  A decoded image is [id, w, h, readable, bbox_opaque,           *)
(* bbox_safe, bg, cb]: readable says whether its pixel data can be         *)
(* loaded; bbox_opaque and bbox_safe are the getbbox() results of the      *)
(* alpha > 250 and alpha > 50 masks (None or Some(<<left, upper, right,    *)
(* lower>>)); bg and cb are what detect_edge_background and                *)
(* detect_content_saliency return on the image once its borders are        *)
(* stripped.                                                               *)
(***************************************************************************)
RawImage(id, w, h, readable, bbox_opaque, bbox_safe, bg, cb) ==
    [id |-> id, w |-> w, h |-> h, readable |-> readable,
     bbox_opaque |-> bbox_opaque, bbox_safe |-> bbox_safe, bg |-> bg, cb |-> cb]

\* A window screenshot with a translucent shadow around it
WindowShot ==
    RawImage("window", 300, 200, TRUE, Some(<<20, 10, 280, 180>>),
             Some(<<5, 2, 295, 195>>), EdgeTrims(10, 20, 6, 12),
             Some(ContentBounds(30, 20, 200, 150)))
\* A fully opaque image smaller than 50 px
SmallShot ==
    RawImage("small", 44, 40, TRUE, Some(<<0, 0, 44, 40>>),
             Some(<<0, 0, 44, 40>>), EdgeTrims(0, 0, 0, 0), None)
\* An icon whose opaque part is exactly 50 x 50
IconShot ==
    RawImage("icon", 60, 60, TRUE, Some(<<5, 5, 55, 55>>),
             Some(<<3, 3, 57, 57>>), EdgeTrims(20, 20, 2, 2), None)
\* A fully opaque photo
PhotoShot ==
    RawImage("photo", 640, 480, TRUE, Some(<<0, 0, 640, 480>>),
             Some(<<0, 0, 640, 480>>), EdgeTrims(50, 25, 0, 38), None)
\* A fully transparent image
ClearShot ==
    RawImage("clear", 120, 80, TRUE, None, None, EdgeTrims(48, 48, 32, 32), None)
\* An image whose pixel data cannot be read (truncated file)
BrokenShot ==
    RawImage("broken", 300, 200, FALSE, None, None, EdgeTrims(0, 0, 0, 0), None)

\* A fallback crop that adds the 1 px without clamping to the image
strip_box_unclamped(image) ==
    IF image.bbox_safe # None
    THEN <<image.bbox_safe[1][1] - 1, image.bbox_safe[1][2] - 1,
           image.bbox_safe[1][3] + 1, image.bbox_safe[1][4] + 1>>
    ELSE <<0, 0, image.w, image.h>>

\* CompositionPipeline._strip_transparent_borders: the box it crops to
StripMin == 50
strip_box(image) ==
    LET o == image.bbox_opaque
        f == image.bbox_safe
    IN  IF o # None /\ o[1][3] - o[1][1] > StripMin /\ o[1][4] - o[1][2] > StripMin
        THEN o[1]
        ELSE IF f # None
             THEN <<Max(0, f[1][1] - 1), Max(0, f[1][2] - 1),
                    Min(image.w, f[1][3] + 1), Min(image.h, f[1][4] + 1)>>
             ELSE <<0, 0, image.w, image.h>>

\* The image _strip_transparent_borders returns, as the renderer sees it:
\* [id, w, h, bg, cb] (reading an unreadable image raises before this).
strip_transparent_borders(image) ==
    LET box == strip_box(image)
    IN  [id |-> <<image.id, box>>, w |-> box[3] - box[1], h |-> box[4] - box[2],
         bg |-> image.bg, cb |-> image.cb]

(***************************************************************************)
(* SpecRender: CompositionRenderer(image, state).render() called up to     *)
(* MaxRenders times for one image and one state value, each time either on *)
(* the state object the earlier calls ran with or on a fresh equal copy of *)
(* the value the caller built.                                             *)
(***************************************************************************)
MaxRenders == 2

RenderImages ==
    {strip_transparent_borders(i) :
        i \in {WindowShot, SmallShot, IconShot, PhotoShot, ClearShot}}
RenderPaddings == {0, 20, DefaultPadding}
RenderRadii == {0, DefaultRadius, 40}
NoInsets == as_dict(BalancedInsets(0, 0, 0, 0))
RenderInsets ==
    {InsetConfig("balance", s, 24, NoInsets) : s \in {<<0, 1>>, <<65, 100>>, <<1, 1>>}}
    \cup {InsetConfig("manual", <<65, 100>>, m, NoInsets) : m \in {0, 24}}
RenderShadows ==
    {ShadowConfig(s, DefaultShadowLayers) : s \in {<<0, 1>>, <<55, 100>>, <<1, 1>>}}
    \cup {ShadowConfig(<<0, 1>>, <<ShadowLayer(40, 10, 30, 100)>>)}
RenderOutputs ==
    {DefaultOutput,
     OutputConfig("fixedSize", <<16, 9>>, <<1920, 1080>>, None),
     OutputConfig("fixedSize", <<16, 9>>, <<100, 100>>, None),
     OutputConfig("fixedRatio", <<16, 9>>, <<1920, 1080>>, None),
     OutputConfig("fixedRatio", <<1, 1>>, <<1920, 1080>>, None),
     OutputConfig("platform", <<16, 9>>, <<1920, 1080>>, Some("instagram")),
     OutputConfig("platform", <<16, 9>>, <<800, 600>>, Some("myspace"))}
RenderBackgrounds ==
    {DefaultBackground,
     BackgroundConfig("preset", "no-such-preset", None),
     BackgroundConfig("image", "slate", Some("wallpaper.jpg"))}

InitRender ==
    /\ \E i \in RenderImages : r_image = Some(i)
    /\ \E p \in RenderPaddings, n \in RenderInsets, r \in RenderRadii,
          s \in RenderShadows, b \in RenderBackgrounds, o \in RenderOutputs :
            LET st == CompositionState(p, n, r, s, b, o)
            IN  r_state = Some(<<st, st>>)
    /\ r_log = <<>>
    /\ InsetsIdle
    /\ BalanceIdle
    /\ PipelineIdle
    /\ SerialIdle
    /\ StripIdle
    /\ CaptureIdle
    /\ DetectIdle
    /\ WindowIdle
    /\ PortalIdle

\* render() on the state object the earlier renders were given
RenderSameObject ==
    /\ r_image # None
    /\ Len(r_log) < MaxRenders
    /\ r_log' = Append(r_log, [on |-> "same object",
                               result |-> render(r_image[1], r_state[1][2])])
    /\ r_state' = Some(<<r_state[1][1],
                         state_after_render(r_image[1], r_state[1][2])>>)
    /\ UNCHANGED <<r_image, ai_vars, bal_vars, pipeline_vars, dirty, last,
                 ser_vars, strip_vars, cap_vars,
                   det_vars, win_vars, por_vars>>

\* render() on a new state object equal to the value the caller built
RenderEqualState ==
    /\ r_image # None
    /\ Len(r_log) < MaxRenders
    /\ r_log' = Append(r_log, [on |-> "equal state",
                               result |-> render(r_image[1], r_state[1][1])])
    /\ UNCHANGED <<r_image, r_state, ai_vars, bal_vars, pipeline_vars, dirty, last,
                 ser_vars, strip_vars, cap_vars,
                   det_vars, win_vars, por_vars>>

NextRender == RenderSameObject \/ RenderEqualState

SpecRender == InitRender /\ [][NextRender]_vars

(***************************************************************************)
(* Claims about CompositionRenderer.render (checked under SpecRender)      *)
(***************************************************************************)
\* C6: rendering is deterministic: all render calls with the same input
\* image and equal state values end the same way and return the same
\* canvas (same size, same pixels), also when a call is made on the state
\* object an earlier call has already run with.
C6_RenderDeterministic ==
    \A i \in DOMAIN r_log : \A j \in DOMAIN r_log :
        r_log[i].result = r_log[j].result

\* C6 witness: a second render has completed on the state object into which
\* the first one had stored non-zero balanced insets, at a strength that is
\* neither 0 nor 1.
C6_Witness ==
    /\ Len(r_log) = 2
    /\ r_log[2].on = "same object"
    /\ r_log[1].on = "same object"
    /\ ~r_log[2].result.raised
    /\ r_state[1][1].inset.mode = "balance"
    /\ r_state[1][1].inset.strength = <<65, 100>>
    /\ r_state[1][2].inset.balanced_insets_px # NoInsets
    /\ r_state[1][2] # r_state[1][1]

r_done == r_image # None /\ r_state # None /\ r_log # <<>>
\* the state the renders were given, as it was built
r_given == r_state[1][1]

\* the size the output configuration names: the platform preset's, or size_px
named_size(o) ==
    IF o.mode = "platform" /\ o.platform # None
          /\ o.platform[1] \in DOMAIN PLATFORM_PRESETS
    THEN PLATFORM_PRESETS[o.platform[1]]
    ELSE o.size_px

\* C14: in fixedSize mode the output size is size_px and in platform mode
\* it is the named platform preset's size, or size_px when the platform is
\* unknown or absent, both as compute_output_size returns it and as the
\* size of the image render produces, for every padding_px and shadow.
C14_FixedOutputSize ==
    (r_done /\ r_given.output.mode \in {"fixedSize", "platform"}) =>
        /\ compute_output_size(r_image[1], r_given) = named_size(r_given.output)
        /\ \A i \in DOMAIN r_log :
            ~r_log[i].result.raised =>
                r_log[i].result.canvas[1].size = named_size(r_given.output)

\* the size of the card a canvas shows
card_size(canvas) ==
    <<canvas.crop_box[3] - canvas.crop_box[1],
      canvas.crop_box[4] - canvas.crop_box[2]>>

\* C15: in autoRatio mode the canvas is card_w + 2*P by card_h + 2*P with
\* P = max(padding_px, shadow_margin), the card being the image after the
\* insets were applied, for every inset configuration.
C15_AutoRatioFromCard ==
    (r_done /\ r_given.output.mode = "autoRatio") =>
        \A i \in DOMAIN r_log :
            ~r_log[i].result.raised =>
                r_log[i].result.canvas[1].size =
                    <<card_size(r_log[i].result.canvas[1])[1]
                        + 2 * Max(r_given.padding_px, shadow_margin(r_given.shadow)),
                      card_size(r_log[i].result.canvas[1])[2]
                        + 2 * Max(r_given.padding_px, shadow_margin(r_given.shadow))>>

\* C16: every rounded rectangle of a render has a radius of at most half
\* the smaller side of its rectangle; when radius_px > min(draw_w, draw_h)/2
\* the card clip and every shadow shape use min(draw_w, draw_h)/2, and
\* otherwise the card clip uses radius_px unchanged.
C16_RadiusClamped ==
    r_done =>
        \A i \in DOMAIN r_log :
            ~r_log[i].result.raised =>
                LET c == r_log[i].result.canvas[1]
                    bound2 == Min(c.draw[1], c.draw[2])
                IN  /\ c.clip_radius2 <= bound2
                    /\ c.clip_radius2 =
                          IF 2 * r_given.radius_px > bound2 THEN bound2
                          ELSE 2 * r_given.radius_px
                    /\ \A k \in DOMAIN c.painted :
                          /\ 2 * c.painted[k].radius
                                <= Min(c.painted[k].w, c.painted[k].h)
                          /\ 2 * r_given.radius_px > bound2 =>
                                2 * c.painted[k].radius
                                    = bound2 * c.painted[k].unit

\* the state object the renders were given, as they left it
r_object == r_state[1][2]

\* the last render was made on that object and returned a canvas
r_completed_on_object ==
    /\ r_done
    /\ r_log[Len(r_log)].on = "same object"
    /\ ~r_log[Len(r_log)].result.raised

\* C23 as stated: a render leaves every field of the state it is given as
\* it was before the call, inset.balanced_insets_px included, in balance
\* and in manual mode.
C23_RenderLeavesStateUnchanged ==
    r_done => r_object = r_given

\* C23 amended: a render leaves every field of the state it is given as it
\* was, except inset.balanced_insets_px in balance mode, which it sets to
\* the insets it computed; in manual mode no field changes.
C23_RenderWritesOnlyBalancedInsets ==
    r_done =>
        /\ r_object = [r_given EXCEPT !.inset.balanced_insets_px =
                                          r_object.inset.balanced_insets_px]
        /\ r_given.inset.mode # "balance" => r_object = r_given
        /\ r_object.inset.balanced_insets_px \in
              {r_given.inset.balanced_insets_px,
               as_dict(render_insets(r_image[1], r_given))}

\* C23 witness: a render in balance mode has replaced balanced_insets_px
\* of the object it was given and nothing else.
C23_Witness ==
    /\ r_completed_on_object
    /\ r_given.inset.mode = "balance"
    /\ r_object # r_given
    /\ r_object.inset.balanced_insets_px # r_given.inset.balanced_insets_px

\* C24: after a completed render the state's inset.balanced_insets_px
\* holds the insets the render computed in step 1: the result of
\* compute_balanced_insets in balance mode, the uniform manual_px insets
\* in manual mode.
C24_InsetsCachedInState ==
    r_completed_on_object =>
        r_object.inset.balanced_insets_px =
            as_dict(render_insets(r_image[1], r_given))

\* the part of C24 about balance mode
InsetsCachedInBalanceMode ==
    (r_completed_on_object /\ r_given.inset.mode = "balance") =>
        r_object.inset.balanced_insets_px =
            as_dict(render_insets(r_image[1], r_given))

\* the space render leaves for the card on a canvas
available(canvas) ==
    <<canvas.size[1] - 2 * canvas.effective_padding,
      canvas.size[2] - 2 * canvas.effective_padding>>

card_fits(canvas) ==
    /\ canvas.draw[1] > 0 /\ canvas.draw[2] > 0
    /\ canvas.draw[1] <= available(canvas)[1]
    /\ canvas.draw[2] <= available(canvas)[2]
    /\ canvas.draw[1] = available(canvas)[1] \/ canvas.draw[2] = available(canvas)[2]

\* C26: for every image and every state, render returns a canvas on which
\* the card has a positive width and height and fits, its aspect kept,
\* into the canvas minus effective_padding = max(padding_px, shadow margin)
\* on each side, touching that box on at least one axis.
C26_CardPlacedInsidePadding ==
    r_done =>
        \A i \in DOMAIN r_log :
            /\ ~r_log[i].result.raised
            /\ r_log[i].result.canvas[1].effective_padding
                  = Max(r_given.padding_px, shadow_margin(r_given.shadow))
            /\ card_fits(r_log[i].result.canvas[1])

\* the canvases that render does return
ReturnedCardFits ==
    r_done =>
        \A i \in DOMAIN r_log :
            ~r_log[i].result.raised =>
                /\ r_log[i].result.canvas[1].effective_padding
                      = Max(r_given.padding_px, shadow_margin(r_given.shadow))
                /\ card_fits(r_log[i].result.canvas[1])

\* render raises only where the card cannot be cropped or the padding
\* leaves no room on the canvas
RaisesOnlyWithoutRoom ==
    r_done =>
        \A i \in DOMAIN r_log :
            r_log[i].result.raised =>
                \/ apply_insets(r_image[1].w, r_image[1].h,
                                render_insets(r_image[1], r_given)).raised
                \/ /\ r_given.padding_px >= shadow_margin(r_given.shadow)
                   /\ \/ compute_output_size(r_image[1], r_given)[1]
                            <= 2 * r_given.padding_px
                      \/ compute_output_size(r_image[1], r_given)[2]
                            <= 2 * r_given.padding_px

\* C17: at shadow.strength = 0 render composites no shadow layer, whatever
\* the layer list contains.
C17_NoShadowAtZeroStrength ==
    (r_done /\ r_given.shadow.strength[1] = 0) =>
        \A i \in DOMAIN r_log :
            ~r_log[i].result.raised =>
                /\ r_log[i].result.canvas[1].shadow = None
                /\ r_log[i].result.canvas[1].painted = <<>>

\* C17 witness: a render at strength 0 of a state whose only layer is
\* fully opaque with blur, spread and offset has returned a canvas without
\* shadow, on padding that a shadow of that layer would not fit in.
C17_Witness ==
    /\ r_done
    /\ r_given.shadow = ShadowConfig(<<0, 1>>, <<ShadowLayer(40, 10, 30, 100)>>)
    /\ r_given.padding_px = 0
    /\ ~r_log[1].result.raised
    /\ r_log[1].result.canvas[1].painted = <<>>
    /\ r_log[1].result.canvas[1].effective_padding = 0

(***************************************************************************)
(* CompositionPipeline (composer/pipeline.py).  Each method is an operator *)
(* from the pipeline object p = [input_image, input_path, state,           *)
(* cached_result, cache_valid] and the arguments to how the call ends:     *)
(* [p, raised, ret, rendered], the object afterwards, whether an exception *)
(* left the method, the returned value (None, or Some(value)) and whether  *)
(* CompositionRenderer.render was invoked.                                 *)
(***************************************************************************)
Returned(p, ret, rendered) ==
    [p |-> p, raised |-> FALSE, ret |-> ret, rendered |-> rendered]
Raised(p, rendered) ==
    [p |-> p, raised |-> TRUE, ret |-> None, rendered |-> rendered]

\* __init__
NewPipeline ==
    [input_image |-> None, input_path |-> None, state |-> DefaultState,
     cached_result |-> None, cache_valid |-> FALSE]

\* A file is [path, found, mode, image]: whether Image.open finds an image
\* file there, the mode it reports and the image it decodes to.
File(path, found, mode, image) ==
    [path |-> path, found |-> found, mode |-> mode, image |-> image]

\* A load_image that records the path and drops the cache before decoding.
load_image_path_first(p, file) ==
    IF ~file.found
    THEN Returned(p, Some(FALSE), FALSE)
    ELSE LET q == [p EXCEPT !.input_path = Some(file.path), !.cache_valid = FALSE]
         IN  IF ~file.image.readable
             THEN Returned(q, Some(FALSE), FALSE)
             ELSE Returned([q EXCEPT !.input_image =
                                Some(strip_transparent_borders(file.image))],
                           Some(TRUE), FALSE)

load_image(p, file) ==
    IF ~file.found
    THEN \* Image.open raises
         Returned(p, Some(FALSE), FALSE)
    ELSE IF file.mode # "RGBA" /\ ~file.image.readable
    THEN \* image.convert('RGBA') raises
         Returned(p, Some(FALSE), FALSE)
    ELSE IF ~file.image.readable
    THEN \* _strip_transparent_borders raises in image.split()
         Returned(p, Some(FALSE), FALSE)
    ELSE Returned([p EXCEPT !.input_image =
                                Some(strip_transparent_borders(file.image)),
                            !.input_path = Some(file.path),
                            !.cache_valid = FALSE],
                  Some(TRUE), FALSE)

set_image(p, image) ==
    IF ~image.readable
    THEN \* _strip_transparent_borders raises; nothing is assigned
         Raised(p, FALSE)
    ELSE Returned([p EXCEPT !.input_image = Some(strip_transparent_borders(image)),
                            !.input_path = None,
                            !.cache_valid = FALSE],
                  None, FALSE)

\* The loop of update_state over kwargs, a sequence of <<key, value>>
RECURSIVE set_attrs(_, _)
set_attrs(st, kwargs) ==
    IF kwargs = <<>> THEN st
    ELSE LET key == Head(kwargs)[1]
             value == Head(kwargs)[2]
         IN  set_attrs(IF key \in DOMAIN st THEN [st EXCEPT ![key] = value] ELSE st,
                       Tail(kwargs))

\* An update_state that drops the cache only if it has set an attribute.
update_state_if_applied(p, kwargs) ==
    Returned([p EXCEPT !.state = set_attrs(p.state, kwargs),
                       !.cache_valid = IF \E i \in DOMAIN kwargs :
                                            kwargs[i][1] \in DOMAIN p.state
                                        THEN FALSE ELSE p.cache_valid],
             None, FALSE)

update_state(p, kwargs) ==
    Returned([p EXCEPT !.state = set_attrs(p.state, kwargs),
                       !.cache_valid = FALSE],
             None, FALSE)

\* A set_state that keeps the cache.
set_state_keeping_cache(p, st) ==
    Returned([p EXCEPT !.state = st], None, FALSE)

set_state(p, st) ==
    Returned([p EXCEPT !.state = st, !.cache_valid = FALSE], None, FALSE)

invalidate_cache(p) ==
    Returned([p EXCEPT !.cache_valid = FALSE], None, FALSE)

\* The end of CompositionPipeline.render once the renderer has run with
\* outcome r and left the state as st: the result is cached, or the
\* exception leaves the method.
cache_result(p, r, st) ==
    IF r.raised
    THEN Raised([p EXCEPT !.state = st], TRUE)
    ELSE Returned([p EXCEPT !.state = st,
                            !.cached_result = r.canvas,
                            !.cache_valid = TRUE],
                  r.canvas, TRUE)

\* CompositionPipeline.render.  The renderer stores the balanced insets into
\* p.state in its step 1, before any of its later steps can raise.
pipeline_render(p, force) ==
    IF p.input_image = None
    THEN Returned(p, None, FALSE)
    ELSE IF p.cache_valid /\ ~force /\ p.cached_result # None
    THEN Returned(p, p.cached_result, FALSE)
    ELSE cache_result(p, render(p.input_image[1], p.state),
                      state_after_render(p.input_image[1], p.state))

get_output_size(p) ==
    IF p.input_image = None
    THEN Returned(p, None, FALSE)
    ELSE Returned(p, Some(compute_output_size(p.input_image[1], p.state)), FALSE)

\* export_png after result = self.render() ended as r (the call is made
\* before the try block); saved says whether result.save(path, 'PNG')
\* succeeds.
save_png(r, saved) ==
    IF r.raised THEN r
    ELSE IF r.ret = None THEN Returned(r.p, Some(FALSE), r.rendered)
    ELSE Returned(r.p, Some(saved), r.rendered)

export_png(p, saved) == save_png(pipeline_render(p, FALSE), saved)

\* export_bytes after result = self.render() ended as r; saved says whether
\* result.save(buf, 'PNG') succeeds.
save_bytes(r, saved) ==
    IF r.raised THEN r
    ELSE IF r.ret = None THEN Returned(r.p, None, r.rendered)
    ELSE IF saved THEN Returned(r.p, Some(<<"PNG", r.ret[1]>>), r.rendered)
    ELSE Returned(r.p, None, r.rendered)

export_bytes(p, saved) == save_bytes(pipeline_render(p, FALSE), saved)

(***************************************************************************)
(* Spec: one CompositionPipeline and every sequence of calls of its        *)
(* methods.                                                                *)
(***************************************************************************)
Files ==
    {File("window.png", TRUE, "RGBA", WindowShot),
     File("small.jpg", TRUE, "RGB", SmallShot),
     File("missing.png", FALSE, "RGBA", BrokenShot),
     File("corrupt.jpg", TRUE, "RGB", BrokenShot),
     File("truncated.png", TRUE, "RGBA", BrokenShot)}

Captures == {WindowShot, IconShot, BrokenShot}

ManualInset == InsetConfig("manual", <<65, 100>>, 24, NoInsets)
SmallOutput == OutputConfig("fixedSize", <<16, 9>>, <<100, 100>>, None)

\* The kwargs of the update_state calls
Updates ==
    << << <<"padding_px", 0>> >>,
       << <<"padding_px", DefaultPadding>> >>,
       << <<"output", SmallOutput>> >>,
       << <<"inset", ManualInset>> >>,
       << <<"zoom", 2>> >>,
       << <<"inset", DefaultInset>>, <<"output", DefaultOutput>> >> >>

StatesToSet ==
    {DefaultState,
     CompositionState(0, ManualInset, DefaultRadius, DefaultShadow,
                      DefaultBackground, SmallOutput)}

Pipeline ==
    [input_image |-> input_image, input_path |-> input_path, state |-> state,
     cached_result |-> cached_result, cache_valid |-> cache_valid]

InvalidatingCalls == {"update_state", "set_state", "invalidate_cache"}
RenderCalls == {"render", "export_png", "export_bytes"}
ExportCalls == {"export_png", "export_bytes"}

\* The call op has ended as r: the pipeline object becomes r.p and the call
\* is recorded.  dirty is set by update_state, set_state, invalidate_cache,
\* by a load_image that returned True and a set_image that returned, and is
\* reset when a call has run the renderer to completion.
Called(op, force, r) ==
    /\ input_image' = r.p.input_image
    /\ input_path' = r.p.input_path
    /\ state' = r.p.state
    /\ cached_result' = r.p.cached_result
    /\ cache_valid' = r.p.cache_valid
    /\ last' = Some([op |-> op, force |-> force, raised |-> r.raised,
                     ret |-> r.ret, rendered |-> r.rendered])
    /\ dirty' = (IF op \in InvalidatingCalls THEN TRUE
                 ELSE IF op = "load_image" THEN dirty \/ r.ret = Some(TRUE)
                 ELSE IF op = "set_image" THEN dirty \/ ~r.raised
                 ELSE IF op \in RenderCalls
                      THEN dirty /\ ~(r.rendered /\ ~r.raised)
                      ELSE dirty)
    /\ UNCHANGED <<ai_vars, bal_vars, r_vars, ser_vars, strip_vars, cap_vars,
                   det_vars, win_vars, por_vars>>

Init ==
    /\ input_image = NewPipeline.input_image
    /\ input_path = NewPipeline.input_path
    /\ state = NewPipeline.state
    /\ cached_result = NewPipeline.cached_result
    /\ cache_valid = NewPipeline.cache_valid
    /\ dirty = FALSE
    /\ last = None
    /\ InsetsIdle
    /\ BalanceIdle
    /\ RenderIdle
    /\ SerialIdle
    /\ StripIdle
    /\ CaptureIdle
    /\ DetectIdle
    /\ WindowIdle
    /\ PortalIdle

LoadImage ==
    \E f \in Files : Called("load_image", FALSE, load_image(Pipeline, f))

SetImage ==
    \E i \in Captures : Called("set_image", FALSE, set_image(Pipeline, i))

UpdateState ==
    \E k \in DOMAIN Updates :
        Called("update_state", FALSE, update_state(Pipeline, Updates[k]))

SetState ==
    \E st \in StatesToSet : Called("set_state", FALSE, set_state(Pipeline, st))

InvalidateCache ==
    Called("invalidate_cache", FALSE, invalidate_cache(Pipeline))

Render ==
    \E force \in BOOLEAN : Called("render", force, pipeline_render(Pipeline, force))

GetOutputSize ==
    Called("get_output_size", FALSE, get_output_size(Pipeline))

ExportPng ==
    \E saved \in BOOLEAN : Called("export_png", FALSE, export_png(Pipeline, saved))

ExportBytes ==
    \E saved \in BOOLEAN : Called("export_bytes", FALSE, export_bytes(Pipeline, saved))

Next ==
    \/ LoadImage
    \/ SetImage
    \/ UpdateState
    \/ SetState
    \/ InvalidateCache
    \/ Render
    \/ GetOutputSize
    \/ ExportPng
    \/ ExportBytes

Spec == Init /\ [][Next]_vars

(***************************************************************************)
(* Claims about CompositionPipeline (checked under Spec)                   *)
(***************************************************************************)
called == last # None
call == last[1]

\* C7: cache coherence: in every state reachable by any sequence of the
\* pipeline's operations, if the cache is marked valid then the cached
\* result is exactly what CompositionRenderer produces for the current input
\* image and the current state, and an image render() has just returned is
\* the one CompositionRenderer produces for them: never one computed from an
\* earlier image or an earlier state.
C7_CacheCoherent ==
    /\ cache_valid =>
          /\ input_image # None
          /\ cached_result # None
          /\ render(input_image[1], state) =
                [raised |-> FALSE, canvas |-> cached_result]
    /\ (called /\ call.op = "render" /\ ~call.raised /\ call.ret # None) =>
          call.ret = render(input_image[1], state).canvas

\* C7 witness: render() has answered from a valid cache on a pipeline whose
\* image was replaced by a capture and whose padding was changed after
\* construction.
C7_Witness ==
    /\ called
    /\ call.op = "render"
    /\ ~call.rendered
    /\ call.ret # None
    /\ cache_valid
    /\ input_path = None
    /\ input_image[1].id[1] = "icon"
    /\ state.padding_px = 0
    /\ state.inset.mode = "balance"

\* C8: render(force) returns None without invoking the renderer when no
\* input image is loaded; otherwise it invokes CompositionRenderer if and
\* only if force is true, or no result is cached, or a successful
\* load_image, a set_image, update_state, set_state or invalidate_cache has
\* returned since the last completed render; in all other cases it returns
\* the cached image without re-rendering and leaves it cached.  export_png
\* and export_bytes follow the same rule and never force.
C8_RendersWhenNeeded ==
    [][(last' # None /\ last'[1].op \in RenderCalls) =>
          LET c == last'[1]
          IN  /\ (c.op \in ExportCalls) => ~c.force
              /\ (input_image = None) =>
                    /\ ~c.rendered
                    /\ ~c.raised
                    /\ (c.op = "render") => (c.ret = None)
              /\ (input_image # None) =>
                    (c.rendered <=> (c.force \/ cached_result = None \/ dirty))
              /\ (input_image # None /\ ~c.rendered) =>
                    /\ cached_result' = cached_result
                    /\ ~c.raised
                    /\ (c.op = "render") => (c.ret = cached_result)]_vars

\* C8 witness: export_bytes has answered from the cache, without invoking
\* the renderer, on a pipeline whose state had been changed and rendered
\* before.
C8_Witness ==
    /\ called
    /\ call.op = "export_bytes"
    /\ ~call.rendered
    /\ call.ret # None
    /\ ~dirty
    /\ state.padding_px = 0
    /\ input_path # None

\* The pipeline object after the step
PipelineAfter ==
    [input_image |-> input_image', input_path |-> input_path', state |-> state',
     cached_result |-> cached_result', cache_valid |-> cache_valid']

\* C9: a load_image that fails (the file is not found, does not decode, or
\* fails while its borders are stripped) returns False, raises nothing and
\* leaves input_image, input_path, state, the cached result and the cache
\* validity as they were, so that a following render() does what it would
\* have done before the call.
C9_FailedLoadChangesNothing ==
    [][(last' # None /\ last'[1].op = "load_image") =>
          /\ ~last'[1].raised
          /\ (last'[1].ret = Some(FALSE)) =>
                /\ UNCHANGED pipeline_vars
                /\ pipeline_render(PipelineAfter, FALSE) = pipeline_render(Pipeline, FALSE)]_vars

\* C9 witness: load_image has returned False on a pipeline that holds a
\* loaded image, its path and a valid cached result.
C9_Witness ==
    /\ called
    /\ call.op = "load_image"
    /\ call.ret = Some(FALSE)
    /\ input_image # None
    /\ input_path # None
    /\ cache_valid
    /\ cached_result # None

\* C10: export_png and export_bytes never raise; when the output cannot be
\* produced (no image loaded, a failure inside rendering, a failure to
\* encode or write) export_png returns False and export_bytes returns None,
\* and the pipeline's input image and state are unchanged.
C10_ExportNeverRaises ==
    [][(last' # None /\ last'[1].op \in ExportCalls) =>
          LET c == last'[1]
              produced == /\ ~c.raised
                          /\ IF c.op = "export_png" THEN c.ret = Some(TRUE)
                             ELSE c.ret # None
          IN  /\ ~c.raised
              /\ ~produced =>
                    /\ c.ret = (IF c.op = "export_png" THEN Some(FALSE) ELSE None)
                    /\ input_image' = input_image
                    /\ state' = state]_vars

(***************************************************************************)
(* Serialization (models/composition.py, models/preset.py).  A dict is a   *)
(* function from its keys; a persisted list is a sequence.                  *)
(***************************************************************************)
\* dict.get(key, default)
get(d, key, default) == IF key \in DOMAIN d THEN d[key] ELSE default

\* dataclasses.asdict on one ShadowLayer
layer_to_dict(layer) ==
    [blur |-> layer.blur, spread |-> layer.spread,
     offset_y |-> layer.offset_y, opacity |-> layer.opacity]

\* dataclasses.asdict on the list of layers
layers_to_dict(layers) ==
    IF layers = <<>> THEN <<>>
    ELSE [i \in 1..Len(layers) |-> layer_to_dict(layers[i])]

\* CompositionState.to_dict: asdict, recursively, field by field
to_dict(st) ==
    [padding_px |-> st.padding_px,
     inset |-> [mode |-> st.inset.mode, strength |-> st.inset.strength,
                manual_px |-> st.inset.manual_px,
                balanced_insets_px |-> st.inset.balanced_insets_px],
     radius_px |-> st.radius_px,
     shadow |-> [strength |-> st.shadow.strength,
                 layers |-> layers_to_dict(st.shadow.layers)],
     background |-> [type |-> st.background.type,
                     preset_id |-> st.background.preset_id,
                     image_path |-> st.background.image_path],
     output |-> [mode |-> st.output.mode, ratio |-> st.output.ratio,
                 size_px |-> st.output.size_px,
                 platform |-> st.output.platform]]

\* ShadowLayer(**layer): a keyword that is not a field is a TypeError, a
\* field that is not given takes the class default
LayerFields == {"blur", "spread", "offset_y", "opacity"}
layer_accepted(layer) == DOMAIN layer \subseteq LayerFields
layer_from_dict(layer) ==
    ShadowLayer(get(layer, "blur", 28), get(layer, "spread", -8),
                get(layer, "offset_y", 18), get(layer, "opacity", 18))

\* [ShadowLayer(**layer) for layer in shadow_data.get('layers', [])]
layers_from_dict(shadow_data) ==
    IF get(shadow_data, "layers", <<>>) = <<>> THEN <<>>
    ELSE [i \in 1..Len(shadow_data["layers"]) |->
            layer_from_dict(shadow_data["layers"][i])]

layers_accepted(shadow_data) ==
    \A i \in 1..Len(get(shadow_data, "layers", <<>>)) :
        layer_accepted(shadow_data["layers"][i])

\* layers if layers else ShadowConfig().layers
layers_or_default(layers) ==
    IF layers # <<>> THEN layers ELSE DefaultShadowLayers

inset_from_dict(inset_data) ==
    InsetConfig(get(inset_data, "mode", "balance"),
                get(inset_data, "strength", <<65, 100>>),
                get(inset_data, "manual_px", 24),
                get(inset_data, "balanced_insets_px",
                    [l |-> 0, r |-> 0, t |-> 0, b |-> 0]))

shadow_from_dict(shadow_data) ==
    ShadowConfig(get(shadow_data, "strength", <<55, 100>>),
                 layers_or_default(layers_from_dict(shadow_data)))

background_from_dict(bg_data) ==
    BackgroundConfig(get(bg_data, "type", "preset"),
                     get(bg_data, "preset_id", "sky"),
                     get(bg_data, "image_path", None))

output_from_dict(out_data) ==
    OutputConfig(get(out_data, "mode", "autoRatio"),
                 get(out_data, "ratio", <<16, 9>>),
                 get(out_data, "size_px", <<1920, 1080>>),
                 get(out_data, "platform", None))

\* CompositionState.from_dict: [raised, value]; the only statement that
\* can raise on a dict of dicts is ShadowLayer(**layer)
from_dict(data) ==
    IF "shadow" \in DOMAIN data /\ ~layers_accepted(data["shadow"])
    THEN [raised |-> TRUE, value |-> None]
    ELSE [raised |-> FALSE,
          value |-> Some(CompositionState(
              get(data, "padding_px", DefaultPadding),
              IF "inset" \in DOMAIN data
                  THEN inset_from_dict(data["inset"]) ELSE DefaultInset,
              get(data, "radius_px", DefaultRadius),
              IF "shadow" \in DOMAIN data
                  THEN shadow_from_dict(data["shadow"]) ELSE DefaultShadow,
              IF "background" \in DOMAIN data
                  THEN background_from_dict(data["background"])
                  ELSE DefaultBackground,
              IF "output" \in DOMAIN data
                  THEN output_from_dict(data["output"]) ELSE DefaultOutput))]

\* Preset (models/preset.py)
PRESET_VERSION == 1
Preset(name, version, composition) ==
    [name |-> name, version |-> version, composition |-> composition]

\* Preset.to_dict
preset_to_dict(preset) ==
    [name |-> preset.name, version |-> preset.version,
     composition |-> to_dict(preset.composition)]

\* Preset.from_dict, given what CompositionState.from_dict did
preset_of(data, loaded) ==
    IF loaded.raised THEN loaded
    ELSE [raised |-> FALSE,
          value |-> Some(Preset(get(data, "name", "Untitled"),
                                get(data, "version", PRESET_VERSION),
                                loaded.value[1]))]

\* data.get('composition', {})
EmptyDict == [k \in {} |-> 0]
preset_from_dict(data) ==
    preset_of(data, from_dict(get(data, "composition", EmptyDict)))

(***************************************************************************)
(* Specification SpecSerial: a state (or a preset holding it) is written   *)
(* with to_dict, fields are left out of one section of the dict and an     *)
(* unrecognised key is put at one nesting level, and the dict is loaded.   *)
(***************************************************************************)
Without(d, keys) == [k \in DOMAIN d \ keys |-> d[k]]
WithExtra(d) ==
    [k \in DOMAIN d \cup {"comment"} |-> IF k = "comment" THEN "todo" ELSE d[k]]

EachLayer(layers, keys, extra) ==
    IF layers = <<>> THEN <<>>
    ELSE [i \in 1..Len(layers) |->
            IF extra THEN WithExtra(Without(layers[i], keys))
            ELSE Without(layers[i], keys)]

\* the shadow section with every layer rewritten
InLayers(shadow_data, keys, extra) ==
    IF "layers" \in DOMAIN shadow_data
    THEN [shadow_data EXCEPT !["layers"] = EachLayer(@, keys, extra)]
    ELSE shadow_data

Sections == {"inset", "shadow", "background", "output"}

\* one section of a state dict after the omission and the extra key
SectionOf(d, s, omit, extra) ==
    IF s = "shadow"
    THEN InLayers(
            IF extra = s THEN WithExtra(Without(d[s], IF omit.section = s THEN omit.keys ELSE {}))
            ELSE Without(d[s], IF omit.section = s THEN omit.keys ELSE {}),
            IF omit.section = "layer" THEN omit.keys ELSE {},
            extra = "layer")
    ELSE IF extra = s
         THEN WithExtra(Without(d[s], IF omit.section = s THEN omit.keys ELSE {}))
         ELSE Without(d[s], IF omit.section = s THEN omit.keys ELSE {})

InSections(d, omit, extra) ==
    [k \in DOMAIN d |->
        IF k \in Sections THEN SectionOf(d, k, omit, extra) ELSE d[k]]

\* the state dict as persisted
StateDict(d, omit, extra) ==
    IF extra = "top"
    THEN WithExtra(InSections(Without(d, IF omit.section = "top" THEN omit.keys ELSE {}),
                              omit, extra))
    ELSE InSections(Without(d, IF omit.section = "top" THEN omit.keys ELSE {}),
                    omit, extra)

\* the preset dict as persisted
PresetDict(name, st, omit, extra) ==
    IF extra = "preset"
    THEN WithExtra(Without(
            [name |-> name, version |-> PRESET_VERSION,
             composition |-> StateDict(to_dict(st), omit, extra)],
            IF omit.section = "preset" THEN omit.keys ELSE {}))
    ELSE Without(
            [name |-> name, version |-> PRESET_VERSION,
             composition |-> StateDict(to_dict(st), omit, extra)],
            IF omit.section = "preset" THEN omit.keys ELSE {})

NoLayers ==
    CompositionState(DefaultPadding, DefaultInset, DefaultRadius,
                     ShadowConfig(<<55, 100>>, <<>>), DefaultBackground,
                     DefaultOutput)
Minimal ==
    CompositionState(60, DefaultInset, 8,
                     ShadowConfig(<<30, 100>>, DefaultShadowLayers),
                     DefaultBackground, DefaultOutput)
Custom ==
    CompositionState(40, InsetConfig("manual", <<1, 1>>, 12,
                                     [l |-> 3, r |-> 4, t |-> 5, b |-> 6]),
                     0, ShadowConfig(<<0, 1>>, <<ShadowLayer(4, 0, 2, 50)>>),
                     BackgroundConfig("image", "lavender", Some("/home/u/wall.png")),
                     OutputConfig("platform", <<4, 3>>, <<800, 600>>,
                                  Some("twitter")))
SerialStates == {DefaultState, NoLayers, Minimal, Custom}

SectionKeys ==
    [top |-> {"padding_px", "inset", "radius_px", "shadow", "background", "output"},
     inset |-> {"mode", "strength", "manual_px", "balanced_insets_px"},
     shadow |-> {"strength", "layers"},
     background |-> {"type", "preset_id", "image_path"},
     output |-> {"mode", "ratio", "size_px", "platform"},
     layer |-> LayerFields,
     preset |-> {"name", "version", "composition"}]

Omissions(kind) ==
    UNION {{[section |-> s, keys |-> ks] : ks \in SUBSET SectionKeys[s]} :
             s \in IF kind = "preset" THEN DOMAIN SectionKeys
                   ELSE DOMAIN SectionKeys \ {"preset"}}

ExtraLevels(kind) ==
    {"none", "top", "inset", "shadow", "layer", "background", "output"}
        \cup IF kind = "preset" THEN {"preset"} ELSE {}

SerialCall(kind, st, omit, extra) ==
    [kind |-> kind, state |-> st, omit |-> omit, extra |-> extra,
     data |-> IF kind = "preset" THEN PresetDict("Social", st, omit, extra)
              ELSE StateDict(to_dict(st), omit, extra)]

InitSerial ==
    /\ \E kind \in {"state", "preset"} :
         \E st \in SerialStates, omit \in Omissions(kind),
            extra \in ExtraLevels(kind) :
            ser_in = Some(SerialCall(kind, st, omit, extra))
    /\ ser_out = None
    /\ InsetsIdle
    /\ BalanceIdle
    /\ RenderIdle
    /\ PipelineIdle
    /\ StripIdle
    /\ CaptureIdle
    /\ DetectIdle
    /\ WindowIdle
    /\ PortalIdle

\* CompositionState.from_dict(data)
FromDict ==
    /\ ser_in # None
    /\ ser_out = None
    /\ ser_in[1].kind = "state"
    /\ ser_out' = Some(from_dict(ser_in[1].data))
    /\ UNCHANGED <<ser_in, ai_vars, bal_vars, r_vars, pipeline_vars, dirty, last,
                   strip_vars, cap_vars,
                   det_vars, win_vars, por_vars>>

\* Preset.from_dict(data)
PresetFromDict ==
    /\ ser_in # None
    /\ ser_out = None
    /\ ser_in[1].kind = "preset"
    /\ ser_out' = Some(preset_from_dict(ser_in[1].data))
    /\ UNCHANGED <<ser_in, ai_vars, bal_vars, r_vars, pipeline_vars, dirty, last,
                   strip_vars, cap_vars,
                   det_vars, win_vars, por_vars>>

NextSerial == FromDict \/ PresetFromDict

SpecSerial == InitSerial /\ [][NextSerial]_vars

ser_done == ser_in # None /\ ser_out # None
ser_call == ser_in[1]
ser_res == ser_out[1]
\* the state that was loaded, whether directly or inside a preset
ser_state ==
    IF ser_call.kind = "preset" THEN ser_res.value[1].composition
    ELSE ser_res.value[1]
Intact == ser_call.omit.keys = {} /\ ser_call.extra = "none"

\* C11: from_dict(s.to_dict()) is field-for-field equal to s, for every
\* state s, the empty shadow layer list included.
C11_RoundTrip ==
    (ser_done /\ Intact) => (~ser_res.raised /\ ser_state = ser_call.state)

\* what loading a persisted dict gives
load_of(c) ==
    IF c.kind = "preset" THEN preset_from_dict(c.data) ELSE from_dict(c.data)

\* C12: an unrecognised key at any nesting level (top level, inset,
\* shadow, an individual shadow layer, background, output, or the preset)
\* does not make loading fail, and the loaded value is the one the same
\* dict gives without the key.
C12_ExtraKeysIgnored ==
    (ser_done /\ ser_call.extra # "none") =>
        /\ ~ser_res.raised
        /\ ser_res = load_of(SerialCall(ser_call.kind, ser_call.state,
                                        ser_call.omit, "none"))

\* C13: every field omitted at top level or inside a present inset,
\* shadow, background or output section is loaded with the value it has
\* in a freshly constructed CompositionState().
C13_OmittedFieldsDefault ==
    (ser_done /\ ser_call.extra = "none"
        /\ ser_call.omit.section \in Sections \cup {"top"}) =>
        /\ ~ser_res.raised
        /\ \A k \in ser_call.omit.keys :
            IF ser_call.omit.section = "top"
            THEN ser_state[k] = DefaultState[k]
            ELSE ser_state[ser_call.omit.section][k]
                    = DefaultState[ser_call.omit.section][k]

(***************************************************************************)
(* Specification SpecStrip: _strip_transparent_borders called on one       *)
(* RGBA image.  On each axis the image has a size, the extent of its       *)
(* alpha > 250 pixels and, around it, the extent of its alpha > 50 pixels; *)
(* an image may also have no pixel above 250, or none above 50.            *)
(***************************************************************************)
MaxStripDim == 60
StripSizes == {40, StripMin, StripMin + 1, MaxStripDim}
StripBorders == {0, 1, 5}
StripHalos == {0, 1, 3}

\* one axis: [n, o, f], the size and the two extents
StripAxes ==
    {[n |-> n, o |-> <<a, n - b>>, f |-> <<Max(0, a - m), Min(n, n - b + m)>>] :
        n \in StripSizes, a \in StripBorders, b \in StripBorders, m \in StripHalos}

StripImage(x, y, alpha) ==
    RawImage("shot", x.n, y.n, TRUE,
             IF alpha = "opaque" THEN Some(<<x.o[1], y.o[1], x.o[2], y.o[2]>>)
             ELSE None,
             IF alpha = "clear" THEN None
             ELSE Some(<<x.f[1], y.f[1], x.f[2], y.f[2]>>),
             EdgeTrims(0, 0, 0, 0), None)

InitStrip ==
    /\ \E x \in StripAxes, y \in StripAxes,
          alpha \in {"opaque", "faint", "clear"} :
            strip_in = Some(StripImage(x, y, alpha))
    /\ strip_out = None
    /\ InsetsIdle
    /\ BalanceIdle
    /\ RenderIdle
    /\ PipelineIdle
    /\ SerialIdle
    /\ CaptureIdle
    /\ DetectIdle
    /\ WindowIdle
    /\ PortalIdle

\* _strip_transparent_borders(image)
StripTransparentBorders ==
    /\ strip_in # None
    /\ strip_out = None
    /\ strip_out' = Some(strip_transparent_borders(strip_in[1]))
    /\ UNCHANGED <<strip_in, ai_vars, bal_vars, r_vars, pipeline_vars, dirty, last,
                   ser_vars, cap_vars,
                   det_vars, win_vars, por_vars>>

NextStrip == StripTransparentBorders

SpecStrip == InitStrip /\ [][NextStrip]_vars

strip_done == strip_in # None /\ strip_out # None
\* the part of the input the returned image shows
strip_kept == strip_out[1].id[2]
\* alpha 255 at every pixel: both masks cover the whole image
fully_opaque(image) ==
    /\ image.bbox_opaque = Some(<<0, 0, image.w, image.h>>)
    /\ image.bbox_safe = Some(<<0, 0, image.w, image.h>>)

\* C18: a fully opaque RGBA image of any size, 50 px or smaller included,
\* comes back with the same width, height and pixels.
C18_OpaqueUnchanged ==
    (strip_done /\ fully_opaque(strip_in[1])) =>
        /\ strip_out[1].w = strip_in[1].w
        /\ strip_out[1].h = strip_in[1].h
        /\ strip_kept = <<0, 0, strip_in[1].w, strip_in[1].h>>

\* C18 witness: a fully opaque 40 x 50 image, too small for the first
\* strategy, has been returned whole.
C18_Witness ==
    /\ strip_done
    /\ fully_opaque(strip_in[1])
    /\ strip_in[1].w = 40
    /\ strip_in[1].h = StripMin
    /\ strip_kept = <<0, 0, 40, StripMin>>

\* C20: if the alpha > 250 box exists and is at least 50 wide and 50 high
\* (50 x 50 included) the result is the crop to exactly that box;
\* otherwise, if the alpha > 50 box exists, the crop to that box grown by
\* 1 px on each side and clamped to the image; otherwise the whole image.
C20_TierSelection ==
    strip_done =>
        LET image == strip_in[1]
            o == image.bbox_opaque
            f == image.bbox_safe
        IN  strip_kept =
              IF o # None /\ o[1][3] - o[1][1] >= 50 /\ o[1][4] - o[1][2] >= 50
              THEN o[1]
              ELSE IF f # None
                   THEN <<Max(0, f[1][1] - 1), Max(0, f[1][2] - 1),
                          Min(image.w, f[1][3] + 1), Min(image.h, f[1][4] + 1)>>
                   ELSE <<0, 0, image.w, image.h>>

(***************************************************************************)
(* Capture (capture/manager.py, capture/portal.py).  One capture request:  *)
(* cap_env fixes what the world does (the screenshot tool, the screenshot  *)
(* directory, the session bus, the portal's response, the image file, the  *)
(* caller's callback); cap is [pc, pending_callback, signal_id,            *)
(* call_outstanding, requested, delivered, escaped]: where the request     *)
(* stands, PortalCapture's fields (set or not), whether the Screenshot     *)
(* call awaits its completion handler and was sent at all, the values the  *)
(* callback has been invoked with, and the exception that left the last    *)
(* handler, if one did.                                                    *)
(***************************************************************************)
NewCapture ==
    [pc |-> "idle", pending_callback |-> FALSE, signal_id |-> FALSE,
     call_outstanding |-> FALSE, requested |-> FALSE, delivered |-> <<>>,
     escaped |-> None]

\* whether the caller's callback raises when invoked with value
callback_raises(env, value) ==
    \/ env.fails_on = "anything"
    \/ env.fails_on = "result" /\ value = "result"

\* callback(value) has been entered
delivered_to(c, value) == [c EXCEPT !.delivered = Append(@, value)]

\* the callback's exception leaves the handler that is running
escape(c, env) == [c EXCEPT !.escaped = Some(env.exception)]

\* PortalCapture.capture_interactive
portal_capture_interactive(c, env) ==
    IF env.bus = "ok"
    THEN [c EXCEPT !.pending_callback = TRUE, !.signal_id = TRUE,
                   !.call_outstanding = TRUE, !.requested = TRUE]
    ELSE IF callback_raises(env, "None")
         THEN escape(delivered_to(
                [c EXCEPT !.pending_callback = TRUE,
                          !.signal_id = (env.bus = "call raises")], "None"), env)
         ELSE delivered_to(
                [c EXCEPT !.pending_callback = TRUE,
                          !.signal_id = (env.bus = "call raises")], "None")

\* if self._pending_callback: self._pending_callback(value)
notify(c, env, value) ==
    IF c.pending_callback
    THEN [c |-> delivered_to(c, value), raised |-> callback_raises(env, value)]
    ELSE [c |-> c, raised |-> FALSE]

\* PortalCapture._on_screenshot_call_complete
on_screenshot_call_complete(c, env) ==
    IF env.call_finish = "ok" THEN c
    ELSE IF notify(c, env, "None").raised
         THEN escape(notify(c, env, "None").c, env)
         ELSE [notify(c, env, "None").c EXCEPT !.pending_callback = FALSE]

\* _on_response, the outer except branch and the last statement
response_failed(c, env) ==
    IF notify(c, env, "None").raised
    THEN escape(notify(c, env, "None").c, env)
    ELSE [notify(c, env, "None").c EXCEPT !.pending_callback = FALSE]

\* _on_response, a self._pending_callback(None) inside the outer try
response_none(c, env) ==
    IF notify(c, env, "None").raised
    THEN response_failed(notify(c, env, "None").c, env)
    ELSE [notify(c, env, "None").c EXCEPT !.pending_callback = FALSE]

\* _on_response, the image loaded: self._pending_callback(result), whose
\* exception the inner except branch catches
response_result(c, env) ==
    IF notify(c, env, "result").raised
    THEN response_none(notify(c, env, "result").c, env)
    ELSE [notify(c, env, "result").c EXCEPT !.pending_callback = FALSE]

\* PortalCapture._on_response, once unsubscribed
on_response(c, env) ==
    CASE env.response = "garbled" -> response_failed(c, env)
      [] env.response = "cancelled" -> response_none(c, env)
      [] env.response = "no uri" -> response_none(c, env)
      [] OTHER -> IF env.image = "loads" THEN response_result(c, env)
                  ELSE response_none(c, env)

\* watch_and_load: callback(None) in an except branch
capture_failed(c, env) ==
    IF callback_raises(env, "None")
    THEN escape(delivered_to(c, "None"), env)
    ELSE delivered_to(c, "None")

\* watch_and_load: the except branch an exception of the callback reaches
callback_failed(c, env) ==
    IF env.exception = "FileNotFoundError"
    THEN portal_capture_interactive(c, env)
    ELSE capture_failed(c, env)

\* watch_and_load: callback(value) inside the try
capture_done(c, env, value) ==
    IF callback_raises(env, value)
    THEN callback_failed(delivered_to(c, value), env)
    ELSE delivered_to(c, value)

\* CaptureManager.capture_interactive's thread
watch_and_load(c, env) ==
    CASE env.tool = "timeout" -> capture_failed(c, env)
      [] env.tool = "not found" -> portal_capture_interactive(c, env)
      [] env.tool = "error" -> capture_failed(c, env)
      [] OTHER -> capture_done(c, env,
                    IF env.new_file = "image" /\ env.image = "loads"
                    THEN "result" ELSE "None")

(***************************************************************************)
(* Specification SpecCapture: one request, through the manager or straight *)
(* to the portal, in every environment.                                    *)
(***************************************************************************)
CaptureEnvs ==
    [entry : {"manager", "portal"},
     tool : {"ran", "timeout", "not found", "error"},
     new_file : {"none", "image"},
     bus : {"ok", "no session", "call raises"},
     call_finish : {"ok", "fails"},
     response : {"uri", "no uri", "cancelled", "garbled", "never"},
     image : {"loads", "fails"},
     fails_on : {"nothing", "result", "anything"},
     exception : {"Exception", "FileNotFoundError"}]

InitCapture ==
    /\ \E env \in CaptureEnvs :
         /\ env.fails_on = "nothing" => env.exception = "Exception"
         /\ cap_env = Some(env)
    /\ cap = Some(NewCapture)
    /\ InsetsIdle
    /\ BalanceIdle
    /\ RenderIdle
    /\ PipelineIdle
    /\ SerialIdle
    /\ StripIdle
    /\ DetectIdle
    /\ WindowIdle
    /\ PortalIdle

\* CaptureManager.capture_interactive: starts the thread
CaptureInteractive ==
    /\ cap # None
    /\ cap_env[1].entry = "manager"
    /\ cap[1].pc = "idle"
    /\ cap' = Some([cap[1] EXCEPT !.pc = "thread"])
    /\ UNCHANGED <<cap_env, ai_vars, bal_vars, r_vars, pipeline_vars, dirty, last,
                   ser_vars, strip_vars,
                   det_vars, win_vars, por_vars>>

\* the thread runs watch_and_load
WatchAndLoad ==
    /\ cap # None
    /\ cap[1].pc = "thread"
    /\ cap' = Some([watch_and_load(cap[1], cap_env[1]) EXCEPT !.pc = "returned"])
    /\ UNCHANGED <<cap_env, ai_vars, bal_vars, r_vars, pipeline_vars, dirty, last,
                   ser_vars, strip_vars,
                   det_vars, win_vars, por_vars>>

\* PortalCapture.capture_interactive called by the application
PortalCaptureInteractive ==
    /\ cap # None
    /\ cap_env[1].entry = "portal"
    /\ cap[1].pc = "idle"
    /\ cap' = Some([portal_capture_interactive(cap[1], cap_env[1])
                        EXCEPT !.pc = "returned"])
    /\ UNCHANGED <<cap_env, ai_vars, bal_vars, r_vars, pipeline_vars, dirty, last,
                   ser_vars, strip_vars,
                   det_vars, win_vars, por_vars>>

\* the main loop delivers the completion of the Screenshot call
OnScreenshotCallComplete ==
    /\ cap # None
    /\ cap[1].call_outstanding
    /\ cap' = Some(on_screenshot_call_complete(
                     [cap[1] EXCEPT !.call_outstanding = FALSE], cap_env[1]))
    /\ UNCHANGED <<cap_env, ai_vars, bal_vars, r_vars, pipeline_vars, dirty, last,
                   ser_vars, strip_vars,
                   det_vars, win_vars, por_vars>>

\* the main loop delivers the portal's Response signal, which is emitted
\* for a request the portal accepted
OnResponse ==
    /\ cap # None
    /\ cap[1].signal_id
    /\ cap[1].requested
    /\ cap_env[1].call_finish = "ok"
    /\ cap_env[1].response # "never"
    /\ cap' = Some(on_response([cap[1] EXCEPT !.signal_id = FALSE], cap_env[1]))
    /\ UNCHANGED <<cap_env, ai_vars, bal_vars, r_vars, pipeline_vars, dirty, last,
                   ser_vars, strip_vars,
                   det_vars, win_vars, por_vars>>

NextCapture ==
    \/ CaptureInteractive
    \/ WatchAndLoad
    \/ PortalCaptureInteractive
    \/ OnScreenshotCallComplete
    \/ OnResponse

SpecCapture == InitCapture /\ [][NextCapture]_vars

\* C19: the callback of a capture request is invoked at most once, on
\* every path: capture, cancel, timeout, tool not found with fallback to
\* the portal, D-Bus call failure, image load failure, and an exception
\* raised while the result is being delivered.
C19_CallbackAtMostOnce ==
    cap # None => Len(cap[1].delivered) <= 1

\* ---------------------------------------------------------------------
\* The detectors on one edge of an image (SpecDetect).
\*
\* Along the axis an edge sweep walks, an image is its dimension and the
\* lines (rows or columns) that hold content: a content line is busy (a
\* band that holds one has a colour variance above the threshold) and, in
\* an RGBA image, fully opaque at every sampled pixel; every other line
\* is flat and, in an RGBA image, not fully opaque.  The content lines
\* are a set of intervals <<first, last>>.

content_line(image, i) ==
    \E iv \in image.content : iv[1] <= i /\ i <= iv[2]

\* get_pixel_variance(get_row_pixels(from, to)) > variance_threshold
band_busy(image, from, to) ==
    \E iv \in image.content : from < to /\ iv[1] < to /\ iv[2] >= from

\* the pixels the sweep reads at an offset: rows offset .. offset + band
\* from the top or left, rows dim - offset - band .. dim - offset from the
\* bottom or right
band_rows(image, edge, offset) ==
    IF edge = "near"
    THEN <<offset, Min(offset + edge_band(image.dim), image.dim)>>
    ELSE <<Max(0, image.dim - offset - edge_band(image.dim)), image.dim - offset>>

band_exceeds(image, edge, offset) ==
    band_busy(image, band_rows(image, edge, offset)[1],
              band_rows(image, edge, offset)[2])

\* a sweep that steps over a busy band and goes on
RECURSIVE edge_sweep_past_busy(_, _, _, _)
edge_sweep_past_busy(image, edge, offset, trim) ==
    IF offset >= edge_cap(image.dim)
    THEN trim
    ELSE IF band_exceeds(image, edge, offset)
         THEN edge_sweep_past_busy(image, edge, offset + edge_band(image.dim), trim)
         ELSE edge_sweep_past_busy(image, edge, offset + edge_band(image.dim),
                                   offset + edge_band(image.dim))

\* for offset in range(0, max_trim, band): break at the first busy band
RECURSIVE edge_sweep(_, _, _, _)
edge_sweep(image, edge, offset, trim) ==
    IF offset >= edge_cap(image.dim)
    THEN trim
    ELSE IF band_exceeds(image, edge, offset)
         THEN trim
         ELSE edge_sweep(image, edge, offset + edge_band(image.dim),
                         offset + edge_band(image.dim))

\* detect_edge_background, one edge
detect_edge_background(image, edge) ==
    Min(edge_sweep(image, edge, 0, 0), edge_cap(image.dim))

\* the first and the last fully opaque line, None when there is none
first_opaque(image) ==
    IF image.content = {}
    THEN None
    ELSE Some(CHOOSE i \in {iv[1] : iv \in image.content} :
                \A iv \in image.content : i <= iv[1])

last_opaque(image) ==
    IF image.content = {}
    THEN None
    ELSE Some(CHOOSE i \in {iv[2] : iv \in image.content} :
                \A iv \in image.content : i >= iv[2])

\* detect_window_transparency, one edge
detect_window_transparency(image, edge) ==
    IF image.mode # "RGBA"
    THEN 0
    ELSE IF edge = "near"
         THEN (IF first_opaque(image) = None THEN 0 ELSE first_opaque(image)[1])
         ELSE (IF last_opaque(image) = None THEN 0
               ELSE image.dim - 1 - last_opaque(image)[1])

MaxDetDim == 8

DetDims == (1 .. MaxDetDim) \cup {50, 100, 1000}

\* the lines content may begin or end at
DetLines(dim) ==
    IF dim <= MaxDetDim
    THEN 0 .. (dim - 1)
    ELSE {0, 1, edge_band(dim) - 1, edge_band(dim), 2 * edge_band(dim) + 1,
          dim \div 10, edge_cap(dim) - 1, edge_cap(dim), dim \div 2,
          dim - 1 - (dim \div 10), dim - 1}

DetIntervals(dim) ==
    {iv \in DetLines(dim) \X DetLines(dim) : iv[1] <= iv[2]}

\* no content, one block of content, or two blocks with flat lines between
DetContents(dim) ==
    {{}} \cup {{iv} : iv \in DetIntervals(dim)}
         \cup {{a, b} : <<a, b>> \in {p \in DetIntervals(dim) \X DetIntervals(dim) :
                                        p[1][2] + 1 < p[2][1]}}

InitDetect ==
    /\ \E dim \in DetDims, mode \in {"RGB", "RGBA"}, edge \in {"near", "far"} :
         \E content \in DetContents(dim) :
           det_in = Some([image |-> [dim |-> dim, mode |-> mode, content |-> content],
                          edge |-> edge])
    /\ det_out = None
    /\ InsetsIdle
    /\ BalanceIdle
    /\ RenderIdle
    /\ PipelineIdle
    /\ SerialIdle
    /\ StripIdle
    /\ CaptureIdle
    /\ WindowIdle
    /\ PortalIdle

DetectEdgeBackground ==
    /\ det_in # None
    /\ det_out = None
    /\ det_out' = Some([detector |-> "detect_edge_background",
                        trim |-> detect_edge_background(det_in[1].image, det_in[1].edge)])
    /\ UNCHANGED <<det_in, ai_vars, bal_vars, r_vars, pipeline_vars, dirty, last,
                   ser_vars, strip_vars, cap_vars, win_vars, por_vars>>

DetectWindowTransparency ==
    /\ det_in # None
    /\ det_out = None
    /\ det_out' = Some([detector |-> "detect_window_transparency",
                        trim |-> detect_window_transparency(det_in[1].image,
                                                            det_in[1].edge)])
    /\ UNCHANGED <<det_in, ai_vars, bal_vars, r_vars, pipeline_vars, dirty, last,
                   ser_vars, strip_vars, cap_vars, win_vars, por_vars>>

NextDetect == DetectEdgeBackground \/ DetectWindowTransparency

SpecDetect == InitDetect /\ [][NextDetect]_vars

det_done(detector) == det_out # None /\ det_out[1].detector = detector

det_image == det_in[1].image

within_cap(trim, dim) == trim >= 0 /\ 10 * trim <= 4 * dim

\* C21: every trim a detector returns, from detect_edge_background and
\* from detect_window_transparency alike, is at least 0 and at most 40% of
\* the dimension of the image along the axis of its edge.
C21_TrimsWithinFortyPercent ==
    det_out # None => within_cap(det_out[1].trim, det_image.dim)

\* the part of C21 that detect_edge_background alone is held to
BackgroundWithinFortyPercent ==
    det_done("detect_edge_background") => within_cap(det_out[1].trim, det_image.dim)

\* the bands of one sweep, numbered from the edge: band j is read at
\* offset j * band, for the offsets below the cap
band_flat(j) ==
    ~band_exceeds(det_image, det_in[1].edge, j * edge_band(det_image.dim))

\* the number of consecutive flat bands counted from the edge
flat_bands(k) ==
    /\ k \in 0 .. edge_sweeps(det_image.dim)
    /\ \A j \in 0 .. (k - 1) : band_flat(j)
    /\ k < edge_sweeps(det_image.dim) => ~band_flat(k)

\* the width of the flat border at the edge of the sweep, None when the
\* image holds no content
border_width ==
    IF det_image.content = {}
    THEN None
    ELSE IF det_in[1].edge = "near"
         THEN Some(first_opaque(det_image)[1])
         ELSE Some(det_image.dim - 1 - last_opaque(det_image)[1])

within_one_band(trim, border) ==
    /\ trim <= Min(border, edge_cap(det_image.dim))
    /\ trim > Min(border, edge_cap(det_image.dim)) - edge_band(det_image.dim)

\* C29: on each edge detect_edge_background returns min(cap, band * k), k
\* being the number of consecutive flat bands counted from that edge over
\* the offsets below the cap; flat bands behind the first busy one do not
\* count, and a flat border of width B in front of content gives a trim
\* within one band of B (of the cap, when B is beyond it).
C29_SweepStopsAtFirstBusyBand ==
    det_done("detect_edge_background") =>
        /\ \E k \in 0 .. edge_sweeps(det_image.dim) :
             /\ flat_bands(k)
             /\ det_out[1].trim = Min(edge_cap(det_image.dim),
                                      edge_band(det_image.dim) * k)
        /\ border_width # None => within_one_band(det_out[1].trim, border_width[1])

\* a 1000 pixel axis, a flat border of 100 on both sides of busy content:
\* the trim is 80, two bands of 40
C29_Witness ==
    /\ det_done("detect_edge_background")
    /\ det_image.dim = 1000
    /\ det_image.content = {<<100, 899>>}
    /\ det_out[1].trim = 80

\* flat bands behind the first busy band, which the sweep does not reach
C29_WitnessFlatAgain ==
    /\ det_done("detect_edge_background")
    /\ \E j \in 0 .. (edge_sweeps(det_image.dim) - 1), k \in 0 .. edge_sweeps(det_image.dim) :
         j > k /\ flat_bands(k) /\ band_flat(j)

\* ---------------------------------------------------------------------
\* ComposureWindow (window.py) and the threads that run its handlers
\* (SpecWindow).
\*
\* The window record:
\*   render_timeout_id   ComposureWindow._render_timeout_id
\*   timers              the GLib timeout sources that are scheduled
\*   created             how many timeout sources were created so far
\*   events              how many UI events were handled so far
\*   has_image, cache_valid   the CompositionPipeline of the window
\*   save_dialog         a save dialog is open
\*   capture             "none", "watching" (watch_and_load runs in its
\*                       thread), "delivering" (that thread runs the
\*                       callback) or "portal" (a portal request is out)
\*   main, thread        the handler the main loop, and the capture
\*                       thread, is running: its name, its argument, the
\*                       steps it has left and the pipeline operation it
\*                       is inside of
WinThread(handler, arg, todo) ==
    [handler |-> handler, arg |-> arg, todo |-> todo, op |-> None]

IdleThread == WinThread("none", "none", <<>>)

\* ComposureWindow.__init__
NewWindow ==
    [render_timeout_id |-> None, timers |-> {}, created |-> 0, events |-> 0,
     has_image |-> FALSE, cache_valid |-> FALSE, save_dialog |-> FALSE,
     capture |-> "none", main |-> IdleThread, thread |-> IdleThread]

PipelineOps ==
    {"load_image", "set_image", "set_state", "invalidate_cache", "render",
     "export_bytes", "export_png"}

\* the operations that run CompositionPipeline.render
RenderOps == {"render", "export_bytes", "export_png"}

\* the steps of the handlers
on_state_changed == <<"set_state", "invalidate_cache", "debounce">>
do_render == <<"clear_timeout_id", "render">>
on_capture_complete == <<"set_image", "set_state">> \o do_render
window_load_image == <<"load_image", "set_state">> \o do_render
copy_to_clipboard == <<"render", "export_bytes">>
save_image == <<"render", "open_save_dialog">>
on_save_complete == <<"export_png">>

\* what a pipeline operation has done to the pipeline when it returns
pipeline_effect(w, op, arg) ==
    CASE op \in {"set_state", "invalidate_cache"} -> [w EXCEPT !.cache_valid = FALSE]
      [] op = "set_image" -> [w EXCEPT !.has_image = TRUE, !.cache_valid = FALSE]
      [] op = "load_image" ->
            IF arg = "good"
            THEN [w EXCEPT !.has_image = TRUE, !.cache_valid = FALSE]
            ELSE w
      [] op \in RenderOps ->
            IF w.has_image THEN [w EXCEPT !.cache_valid = TRUE] ELSE w

\* the steps left after a pipeline operation has returned: load_image
\* returning False, and render returning None in copy_to_clipboard and
\* save_image, end the handler
rest_after(w, th) ==
    IF \/ th.op[1] = "load_image" /\ th.arg # "good"
       \/ /\ th.op[1] = "render"
          /\ th.handler \in {"copy_to_clipboard", "save_image"}
          /\ ~w.has_image
    THEN <<>>
    ELSE Tail(th.todo)

\* _on_state_changed: if self._render_timeout_id: GLib.source_remove(...);
\* self._render_timeout_id = GLib.timeout_add(50, self._do_render)
debounce(w) ==
    [w EXCEPT !.timers = (IF w.render_timeout_id # None
                          THEN w.timers \ {w.render_timeout_id[1]}
                          ELSE w.timers) \cup {w.created + 1},
              !.render_timeout_id = Some(w.created + 1),
              !.created = w.created + 1]

\* a step of a handler that is no pipeline operation
window_step(w, step) ==
    CASE step = "debounce" -> debounce(w)
      [] step = "clear_timeout_id" -> [w EXCEPT !.render_timeout_id = None]
      [] step = "open_save_dialog" -> [w EXCEPT !.save_dialog = TRUE]

\* the thread t ("main" or "thread") goes one step on: it enters the
\* pipeline operation that is next, returns from the one it is in, or
\* executes a step on the window's own fields
take_step(w, t) ==
    IF w[t].op # None
    THEN [pipeline_effect(w, w[t].op[1], w[t].arg)
            EXCEPT ![t].op = None, ![t].todo = rest_after(w, w[t])]
    ELSE IF Head(w[t].todo) \in PipelineOps
         THEN [w EXCEPT ![t].op = Some(Head(w[t].todo))]
         ELSE [window_step(w, Head(w[t].todo)) EXCEPT ![t].todo = Tail(w[t].todo)]

\* a thread that has run its handler to the end
finished(w, t) ==
    IF w[t].todo = <<>> /\ w[t].op = None
    THEN [w EXCEPT ![t] = IdleThread,
                   !.capture = IF t = "thread" THEN "none" ELSE w.capture]
    ELSE w

MaxWinEvents == 3
MaxWinTimers == 3

InitWindow ==
    /\ win = Some(NewWindow)
    /\ InsetsIdle
    /\ BalanceIdle
    /\ RenderIdle
    /\ PipelineIdle
    /\ SerialIdle
    /\ StripIdle
    /\ CaptureIdle
    /\ DetectIdle
    /\ PortalIdle

WindowUnchanged ==
    UNCHANGED <<ai_vars, bal_vars, r_vars, pipeline_vars, dirty, last, ser_vars,
                strip_vars, cap_vars, det_vars, por_vars>>

\* the main loop is between two handlers and takes a UI event
main_idle ==
    /\ win # None
    /\ win[1].main = IdleThread

takes_event ==
    /\ main_idle
    /\ win[1].events < MaxWinEvents

handle(handler, arg, todo) ==
    win' = Some([win[1] EXCEPT !.main = WinThread(handler, arg, todo),
                               !.events = win[1].events + 1])

\* the controls emit state-changed
StateChanged ==
    /\ takes_event
    /\ win[1].created < MaxWinTimers
    /\ handle("_on_state_changed", "none", on_state_changed)
    /\ WindowUnchanged

\* the main loop dispatches a timeout source: _do_render runs, and the
\* source is gone when it returns False
TimerFires ==
    /\ main_idle
    /\ \E id \in win[1].timers :
         win' = Some([win[1] EXCEPT !.timers = win[1].timers \ {id},
                                    !.render_timeout_id = None,
                                    !.main = WinThread("_do_render", "none",
                                                       Tail(do_render))])
    /\ WindowUnchanged

\* _on_open_complete with a file: load_image(path)
OpenFile ==
    /\ takes_event
    /\ \E path \in {"good", "broken"} : handle("load_image", path, window_load_image)
    /\ WindowUnchanged

CopyToClipboard ==
    /\ takes_event
    /\ handle("copy_to_clipboard", "none", copy_to_clipboard)
    /\ WindowUnchanged

SaveImage ==
    /\ takes_event
    /\ handle("save_image", "none", save_image)
    /\ WindowUnchanged

\* _on_save_complete with a file
OnSaveComplete ==
    /\ main_idle
    /\ win[1].save_dialog
    /\ win' = Some([win[1] EXCEPT !.save_dialog = FALSE,
                                  !.main = WinThread("_on_save_complete", "none",
                                                     on_save_complete)])
    /\ WindowUnchanged

\* start_capture: CaptureManager.capture_interactive starts the thread
StartCapture ==
    /\ takes_event
    /\ win[1].capture = "none"
    /\ win' = Some([win[1] EXCEPT !.capture = "watching",
                                  !.events = win[1].events + 1])
    /\ WindowUnchanged

\* watch_and_load in its thread: a new screenshot is loaded and the
\* callback called with it, the callback is called with None, or
\* gnome-screenshot is missing and the portal is asked
WatchAndLoadInThread ==
    /\ win # None
    /\ win[1].capture = "watching"
    /\ \/ win' = Some([win[1] EXCEPT !.capture = "delivering",
                                     !.thread = WinThread("_on_capture_complete",
                                                          "result",
                                                          on_capture_complete)])
       \/ win' = Some([win[1] EXCEPT !.capture = "none"])
       \/ win' = Some([win[1] EXCEPT !.capture = "portal"])
    /\ WindowUnchanged

\* the main loop delivers the portal's Response: the callback is called
\* with a result or with None
PortalResponse ==
    /\ main_idle
    /\ win[1].capture = "portal"
    /\ \/ win' = Some([win[1] EXCEPT !.capture = "none",
                                     !.main = WinThread("_on_capture_complete",
                                                        "result",
                                                        on_capture_complete)])
       \/ win' = Some([win[1] EXCEPT !.capture = "none"])
    /\ WindowUnchanged

\* the main loop goes on with the handler it is running
MainStep ==
    /\ win # None
    /\ win[1].main # IdleThread
    /\ win' = Some(finished(take_step(win[1], "main"), "main"))
    /\ WindowUnchanged

\* the capture thread goes on with the callback it is running
ThreadStep ==
    /\ win # None
    /\ win[1].thread # IdleThread
    /\ win' = Some(finished(take_step(win[1], "thread"), "thread"))
    /\ WindowUnchanged

NextWindow ==
    \/ StateChanged
    \/ TimerFires
    \/ OpenFile
    \/ CopyToClipboard
    \/ SaveImage
    \/ OnSaveComplete
    \/ StartCapture
    \/ WatchAndLoadInThread
    \/ PortalResponse
    \/ MainStep
    \/ ThreadStep

SpecWindow == InitWindow /\ [][NextWindow]_vars

\* the pipeline operation a thread of the window is inside of
win_op(t) == IF win = None THEN None ELSE win[1][t].op

overlapping(a, b) ==
    /\ a # None
    /\ b # None
    /\ \/ a[1] \in RenderOps /\ b[1] \in RenderOps
       \/ a[1] \in RenderOps /\ b[1] \in {"set_image", "set_state"}
       \/ a[1] \in {"set_image", "set_state"} /\ b[1] \in RenderOps

\* C27: in every interleaving of UI events, timer firings and capture
\* completions no two render() calls on the window's pipeline are in
\* progress at the same time, and no set_image or set_state runs while a
\* render() is in progress.
C27_NoOverlappingPipelineOperations ==
    ~overlapping(win_op("main"), win_op("thread"))

\* C28: at most one deferred render is scheduled, and _render_timeout_id
\* is set exactly when one is scheduled (and then names it).
C28_AtMostOneTimerPending ==
    win # None =>
        /\ Cardinality(win[1].timers) <= 1
        /\ win[1].render_timeout_id # None <=> win[1].timers # {}
        /\ win[1].render_timeout_id # None =>
              win[1].timers = {win[1].render_timeout_id[1]}

\* ---------------------------------------------------------------------
\* One PortalCapture object asked for several captures (SpecPortal).
\*
\* Requests are numbered in the order of the calls; request r passes the
\* callback r, subscribes under the subscription id r to the Response
\* signal of its own request path, and its capture, if any, is image r.
\* The portal record:
\*   pending_callback, signal_id   PortalCapture._pending_callback, _signal_id
\*   subscriptions   the subscriptions registered on the bus
\*   requests        per request, the state of its Screenshot call
\*                   ("no bus", "outstanding", "ok", "failed") and whether
\*                   the portal has emitted its Response
\*   delivered       the callback invocations so far: which callback, with
\*                   the result of which request, None or Some(image)
NewPortal ==
    [pending_callback |-> None, signal_id |-> None, subscriptions |-> {},
     requests |-> <<>>, delivered |-> <<>>]

\* if self._pending_callback: self._pending_callback(value)
call_pending(p, of, value) ==
    IF p.pending_callback # None
    THEN [p EXCEPT !.delivered = Append(p.delivered,
                                        [callback |-> p.pending_callback[1],
                                         of |-> of, result |-> value])]
    ELSE p

\* capture_interactive: the request Len(requests) + 1; bus_get_sync
\* returns the bus or raises
portal_request(p, bus) ==
    LET r == Len(p.requests) + 1
    IN  IF bus = "error"
        THEN [p EXCEPT !.pending_callback = Some(r),
                       !.requests = Append(p.requests,
                                           [call |-> "no bus", responded |-> FALSE]),
                       !.delivered = Append(p.delivered,
                                            [callback |-> r, of |-> r,
                                             result |-> None])]
        ELSE [p EXCEPT !.pending_callback = Some(r),
                       !.signal_id = Some(r),
                       !.subscriptions = p.subscriptions \cup {r},
                       !.requests = Append(p.requests,
                                           [call |-> "outstanding",
                                            responded |-> FALSE])]

\* _on_screenshot_call_complete for the call of request r
portal_call_complete(p, r, ok) ==
    IF ok
    THEN [p EXCEPT !.requests[r].call = "ok"]
    ELSE [call_pending(p, r, None) EXCEPT !.requests[r].call = "failed",
                                          !.pending_callback = None]

\* _on_response, first part: if self._signal_id: signal_unsubscribe(...)
portal_unsubscribe(p, r) ==
    IF p.signal_id # None
    THEN [p EXCEPT !.subscriptions = p.subscriptions \ {p.signal_id[1]},
                   !.signal_id = None]
    ELSE p

\* _on_response, second part: the pending callback is called with the
\* image of the response, or with None for a cancelled request, a
\* response without uri and an image that does not load
portal_deliver(p, r, response) ==
    [call_pending(p, r, IF response = "image" THEN Some(r) ELSE None)
        EXCEPT !.pending_callback = None, !.requests[r].responded = TRUE]

\* _on_response for the Response signal of request r
portal_on_response(p, r, response) ==
    portal_deliver(portal_unsubscribe(p, r), r, response)

MaxRequests == 3

PortalResponses == {"image", "cancelled", "no uri", "unreadable"}

InitPortal ==
    /\ por = Some(NewPortal)
    /\ InsetsIdle
    /\ BalanceIdle
    /\ RenderIdle
    /\ PipelineIdle
    /\ SerialIdle
    /\ StripIdle
    /\ CaptureIdle
    /\ DetectIdle
    /\ WindowIdle

PortalUnchanged ==
    UNCHANGED <<ai_vars, bal_vars, r_vars, pipeline_vars, dirty, last, ser_vars,
                strip_vars, cap_vars, det_vars, win_vars>>

\* PortalCapture.capture_interactive(callback)
RequestCapture ==
    /\ por # None
    /\ Len(por[1].requests) < MaxRequests
    /\ \E bus \in {"ok", "error"} : por' = Some(portal_request(por[1], bus))
    /\ PortalUnchanged

\* the main loop delivers the result of a Screenshot call
CallComplete ==
    /\ por # None
    /\ \E r \in DOMAIN por[1].requests :
         /\ por[1].requests[r].call = "outstanding"
         /\ \E ok \in BOOLEAN : por' = Some(portal_call_complete(por[1], r, ok))
    /\ PortalUnchanged

\* the portal emits the Response of a request it accepted, and the
\* subscription of that request is registered: _on_response runs
ResponseSignal ==
    /\ por # None
    /\ \E r \in DOMAIN por[1].requests :
         /\ por[1].requests[r].call = "ok"
         /\ ~por[1].requests[r].responded
         /\ r \in por[1].subscriptions
         /\ \E response \in PortalResponses :
              por' = Some(portal_on_response(por[1], r, response))
    /\ PortalUnchanged

\* the portal emits the Response of a request whose subscription is no
\* longer registered: nothing runs
ResponseUnheard ==
    /\ por # None
    /\ \E r \in DOMAIN por[1].requests :
         /\ por[1].requests[r].call = "ok"
         /\ ~por[1].requests[r].responded
         /\ r \notin por[1].subscriptions
         /\ por' = Some([por[1] EXCEPT !.requests[r].responded = TRUE])
    /\ PortalUnchanged

NextPortal ==
    \/ RequestCapture
    \/ CallComplete
    \/ ResponseSignal
    \/ ResponseUnheard

SpecPortal == InitPortal /\ [][NextPortal]_vars

\* the main loop delivers every call result, and the portal answers every
\* request it accepted
SpecPortalFair ==
    /\ SpecPortal
    /\ WF_vars(CallComplete)
    /\ WF_vars(ResponseSignal)
    /\ WF_vars(ResponseUnheard)

issued(r) == por # None /\ r \in DOMAIN por[1].requests

\* the invocations of the callback of request r
invocations(r) ==
    SelectSeq(por[1].delivered, LAMBDA d : d.callback = r)

\* the callback of request r was invoked once, with the result of r
answered(r) ==
    /\ issued(r)
    /\ Len(invocations(r)) = 1
    /\ invocations(r)[1].of = r

\* the portal has responded to request r, or the request has failed
settled(r) ==
    /\ issued(r)
    /\ \/ por[1].requests[r].call \in {"no bus", "failed"}
       \/ por[1].requests[r].responded

\* C30: every capture request is eventually answered, its callback
\* invoked exactly once and with its own result, also when a request is
\* made before the response to the one before has arrived; no callback is
\* invoked twice or with the result of another request, and no
\* subscription stays registered after the response of its request.
C30_EveryRequestAnswered ==
    \A r \in 1 .. MaxRequests :
        /\ [](issued(r) => <>answered(r))
        /\ [](issued(r) => /\ Len(invocations(r)) <= 1
                           /\ \A i \in DOMAIN invocations(r) : invocations(r)[i].of = r
                           /\ settled(r) => answered(r)
                           /\ por[1].requests[r].responded => r \notin por[1].subscriptions)

====
